---- MODULE Spec2Model ----
(***************************************************************************)
(* Model of the video assembly pipeline of src/src/core/video_editor.py:   *)
(* validate_media_files, parse_video_script, create_video_from_images and  *)
(* create_video_with_ai; of get_client of src/src/api/openai_client.py; and *)
(* of truncate_text and extract_hotels_from_itinerary of                   *)
(* src/src/utils/helpers.py.                                               *)
(*                                                                         *)
(* Times are integers in milliseconds (3.0 s = 3000); where the program   *)
(* compares or divides durations the double it holds is kept as well.      *)
(* Sizes are pixels.                                                       *)
(* Message texts are ASCII renderings of the source's (Chinese) strings.   *)
(***************************************************************************)
EXTENDS Integers, Sequences, FiniteSets, TLC

VARIABLES
    script,        \* parse_video_script: the argument
    parsed,        \* parse_video_script: the outcome (None before the call)
    src_size,      \* cover/crop step: size of the decoded source image
    target_size,   \* cover/crop step: <<target_width, target_height>>
    composed,      \* cover/crop step: size of the clip after lines 233-243
    images,        \* per request: the image path list
    audio,         \* per request: the audio argument (None, "" or a path)
    params,        \* per request: fps, durations, animation_type, target size
    pc,            \* per request: position inside create_video_from_images
    validation,    \* per request: result of validate_media_files
    image_clips,   \* per request: the list image_clips
    video,         \* per request: the local video
    audio_clip,    \* per request: the local audio_clip
    output_path,   \* per request: the local output_path
    result,        \* per request: the returned path
    err,           \* per request: the exception that left the function
    failed,        \* per request: stage and exception of the original failure
    done_stages,   \* per request: the stages that ran to completion
    open,          \* handles opened and not yet closed
    closed,        \* handles close() has been called on
    tmpfiles,      \* files created by tempfile.NamedTemporaryFile
    written,       \* files write_videofile has written completely
    api_key,       \* config value API_KEY ("" when not set)
    ai,            \* create_video_with_ai: arguments, locals, position, outcome
    client_instance, \* the global _client_instance (0 is None)
    created,       \* number of OpenAIClient objects constructed by get_client
    gc,            \* per thread: position inside get_client, local, return
    returned,      \* the instances get_client has returned
    text,          \* truncate_text: the argument text
    max_length,    \* truncate_text: the argument max_length
    truncated,     \* truncate_text: the outcome
    itinerary,     \* extract_hotels_from_itinerary: the argument
    hotels         \* extract_hotels_from_itinerary: the outcome

vars == <<script, parsed, src_size, target_size, composed, images, audio,
          params, pc, validation, image_clips, video, audio_clip, output_path,
          result, err, failed, done_stages, open, closed, tmpfiles, written,
          api_key, ai, client_instance, created, gc, returned,
          text, max_length, truncated, itinerary, hotels>>

aiVars       == <<ai>>
clientVars   == <<client_instance, created, gc, returned>>
truncateVars == <<text, max_length, truncated>>
hotelVars    == <<itinerary, hotels>>
helperVars   == <<api_key, aiVars, clientVars, truncateVars, hotelVars>>

resolveVars == <<script, parsed>>
composeVars == <<src_size, target_size, composed>>
renderVars  == <<images, audio, params, pc, validation, image_clips, video,
                 audio_clip, output_path, result, err, failed, done_stages,
                 open, closed, tmpfiles, written>>

None == "None"

\* a size is <<width, height>>; NoSize stands for a size not computed yet
NoSize == <<>>

Range(s) == {s[i] : i \in DOMAIN s}

Max(a, b) == IF a >= b THEN a ELSE b

(***************************************************************************)
(* Bounds of the model.                                                    *)
(***************************************************************************)
MaxImages == 3     \* longest image list
MaxDim    == 6     \* largest width/height tried by the cover/crop check
NumTmp    == 2     \* names the temp directory can hand out

(***************************************************************************)
(* parse_video_script                                                      *)
(*                                                                         *)
(* A script is given by what json.loads makes of it.  The argument is a    *)
(* str, or a bytes / bytearray that json.loads decodes first; "not_str" is *)
(* an argument of any other type.  "invalid" is text that is not JSON,     *)
(* "undecodable" bytes that are no UTF-8/16/32 text, "too_deep" text       *)
(* nested deeper than the interpreter's recursion limit, "huge_number"     *)
(* text holding an integer of more digits than int() converts; otherwise   *)
(* the kind is that of the decoded value.  JSON values are records [t, v]; *)
(* a float's v is in thousandths, NaN is the value json.loads returns for  *)
(* the token NaN.                                                          *)
(***************************************************************************)
JInt(n)   == [t |-> "int", v |-> n]
JFloat(m) == [t |-> "float", v |-> m]
JStr(s)   == [t |-> "str", v |-> s]
JBool(b)  == [t |-> "bool", v |-> b]
JNaN      == [t |-> "nan", v |-> 0]
JNull     == [t |-> "null", v |-> 0]
JList     == [t |-> "list", v |-> 0]
Absent    == [t |-> "absent", v |-> 0]

DefaultFps        == JInt(24)
DefaultDuration   == JFloat(3000)
DefaultTransition == JFloat(500)
DefaultAnimation  == JStr("fade")

AnimationTypes == {"fade", "zoom", "pan"}

DefaultParams ==
    [fps |-> DefaultFps, duration_per_image |-> DefaultDuration,
     transition_duration |-> DefaultTransition,
     animation_type |-> DefaultAnimation]

\* dict.get(key, default)
Get(x, default) == IF x = Absent THEN default ELSE x

\* isinstance(x, int): bool is a subclass of int
IsInt(x) == x.t \in {"int", "bool"}

\* isinstance(x, (int, float))
IsNumber(x) == x.t \in {"int", "bool", "float", "nan"}

\* the number a value compares as (True is 1, False is 0)
NumVal(x) == IF x.t = "bool" THEN (IF x.v THEN 1 ELSE 0) ELSE x.v

\* x <= 0, x < 0 and x > 0 on Python numbers: every comparison with NaN is False
LeqZero(x) == x.t # "nan" /\ NumVal(x) <= 0
LtZero(x)  == x.t # "nan" /\ NumVal(x) < 0
GtZero(x)  == x.t # "nan" /\ NumVal(x) > 0
GeqZero(x) == x.t # "nan" /\ NumVal(x) >= 0

\* a resolver that also compares the two lengths and falls back to the default
\* transition when the transition is not shorter than a clip
ValidateParamsClampTransition(p) ==
    LET d == IF ~IsNumber(p.duration_per_image) \/ LeqZero(p.duration_per_image)
             THEN DefaultDuration ELSE p.duration_per_image
        ms(x) == IF x.t = "float" THEN x.v ELSE 1000 * NumVal(x)
    IN  [fps |-> IF ~IsInt(p.fps) \/ LeqZero(p.fps) THEN DefaultFps ELSE p.fps,
         duration_per_image |-> d,
         transition_duration |->
            IF ~IsNumber(p.transition_duration) \/ LtZero(p.transition_duration)
               \/ ms(p.transition_duration) >= ms(d)
            THEN DefaultTransition ELSE p.transition_duration,
         animation_type |->
            IF p.animation_type.t # "str" \/ p.animation_type.v \notin AnimationTypes
            THEN DefaultAnimation ELSE p.animation_type]

\* lines 138-151
ValidateParams(p) ==
    [fps |-> IF ~IsInt(p.fps) \/ LeqZero(p.fps) THEN DefaultFps ELSE p.fps,
     duration_per_image |->
        IF ~IsNumber(p.duration_per_image) \/ LeqZero(p.duration_per_image)
        THEN DefaultDuration ELSE p.duration_per_image,
     transition_duration |->
        IF ~IsNumber(p.transition_duration) \/ LtZero(p.transition_duration)
        THEN DefaultTransition ELSE p.transition_duration,
     animation_type |->
        IF p.animation_type.t # "str" \/ p.animation_type.v \notin AnimationTypes
        THEN DefaultAnimation ELSE p.animation_type]

\* outcome of a call: not made yet, returned a value, or raised an exception
Pending     == [state |-> "pending"]
Returned(v) == [state |-> "returned", value |-> v]
Raised(e)   == [state |-> "raised", exc |-> e]

\* a resolver that falls back to the values the text mentions
parse_video_script_from_text(s) ==
    CASE s.kind = "not_str" -> Returned(DefaultParams)
      [] s.kind = "undecodable" -> Raised("UnicodeDecodeError")
      [] s.kind = "too_deep" -> Raised("RecursionError")
      [] s.kind = "huge_number" -> Raised("ValueError")
      [] s.kind \in {"invalid", "object"} ->
            Returned(ValidateParams(
                [fps |-> Get(s.fps, DefaultFps),
                 duration_per_image |-> Get(s.duration_per_image, DefaultDuration),
                 transition_duration |-> Get(s.transition_duration, DefaultTransition),
                 animation_type |-> Get(s.animation_type, DefaultAnimation)]))
      [] OTHER -> Raised("AttributeError")

\* lines 114-159: json.loads raises JSONDecodeError or TypeError, which line
\* 152 turns into the defaults, or an exception line 152 does not name
parse_video_script(s) ==
    CASE s.kind \in {"invalid", "not_str"} -> Returned(DefaultParams)
      [] s.kind = "undecodable" -> Raised("UnicodeDecodeError")
      [] s.kind = "too_deep" -> Raised("RecursionError")
      [] s.kind = "huge_number" -> Raised("ValueError")
      [] s.kind = "object" ->
            Returned(ValidateParams(
                [fps |-> Get(s.fps, DefaultFps),
                 duration_per_image |-> Get(s.duration_per_image, DefaultDuration),
                 transition_duration |-> Get(s.transition_duration, DefaultTransition),
                 animation_type |-> Get(s.animation_type, DefaultAnimation)]))
      [] OTHER -> Raised("AttributeError")

FieldValues ==
    {Absent, JInt(0), JInt(30), JInt(-1), JFloat(1500), JFloat(-500), JFloat(0),
     JBool(TRUE), JNaN, JNull, JList, JStr("zoom"), JStr("spin")}

ObjectScripts ==
    [kind : {"object"}, fps : FieldValues, duration_per_image : FieldValues,
     transition_duration : FieldValues, animation_type : FieldValues]

OtherScripts ==
    {[kind |-> k, fps |-> Absent, duration_per_image |-> Absent,
      transition_duration |-> Absent, animation_type |-> Absent] :
        k \in {"invalid", "not_str", "undecodable", "too_deep", "huge_number",
               "array", "number", "string", "null", "bool"}}

\* free-form text, which json.loads rejects or, when it opens too many
\* brackets, gives up on: the fields are the values the text mentions
\* ("fps 30", a duration or a transition in seconds, an animation keyword),
\* Absent where it mentions none
TextScripts ==
    [kind : {"invalid", "too_deep"}, fps : {Absent, JInt(30)},
     duration_per_image : {Absent, JFloat(1500)},
     transition_duration : {Absent, JFloat(0)},
     animation_type : {Absent, JStr("zoom")}]

Scripts == ObjectScripts \cup OtherScripts \cup TextScripts

Resolve ==
    /\ parsed.state = "pending"
    /\ parsed' = parse_video_script(script)
    /\ UNCHANGED <<script, composeVars, renderVars, helperVars>>

(***************************************************************************)
(* Python floats.  A duration is an integer number of milliseconds in the  *)
(* model and an IEEE-754 double of seconds in the program; where the       *)
(* program compares or divides durations (lines 296-300) the model keeps   *)
(* the double next to the milliseconds.  A double x >= 0 is held exactly,  *)
(* as the natural number x * 2^77 written in digits of base 2^15, least    *)
(* significant digit first (<<>> is 0.0).  The unit 2^-77 holds every      *)
(* double from 2^-25 up, so the double of every positive number of         *)
(* milliseconds and every sum of such doubles.                             *)
(***************************************************************************)
Base == 2^15

RECURSIVE BigOf(_)
\* the digits of the natural number n
BigOf(n) == IF n = 0 THEN <<>> ELSE <<n % Base>> \o BigOf(n \div Base)

Digit(a, i) == IF i <= Len(a) THEN a[i] ELSE 0
Rest(a) == IF a = <<>> THEN <<>> ELSE Tail(a)

RECURSIVE Normal(_)
\* a without leading zero digits
Normal(a) ==
    IF a # <<>> /\ a[Len(a)] = 0 THEN Normal(SubSeq(a, 1, Len(a) - 1)) ELSE a

RECURSIVE BigAdd(_, _, _)
\* a + b + carry
BigAdd(a, b, carry) ==
    IF a = <<>> /\ b = <<>> THEN BigOf(carry)
    ELSE LET x == Digit(a, 1) + Digit(b, 1) + carry
         IN  <<x % Base>> \o BigAdd(Rest(a), Rest(b), x \div Base)

RECURSIVE BigSubDigits(_, _, _)
BigSubDigits(a, b, borrow) ==
    IF a = <<>> THEN <<>>
    ELSE LET x == a[1] - Digit(b, 1) - borrow
         IN  <<x % Base>> \o BigSubDigits(Tail(a), Rest(b), IF x < 0 THEN 1 ELSE 0)

\* a - b, for a >= b
BigSub(a, b) == Normal(BigSubDigits(a, b, 0))

RECURSIVE BigMulSmall(_, _, _)
\* a * k + carry, for 0 < k < Base
BigMulSmall(a, k, carry) ==
    IF a = <<>> THEN BigOf(carry)
    ELSE LET x == a[1] * k + carry
         IN  <<x % Base>> \o BigMulSmall(Tail(a), k, x \div Base)

\* a * 2^bits
BigShl(a, bits) ==
    IF a = <<>> THEN <<>>
    ELSE [i \in 1..(bits \div 15) |-> 0] \o BigMulSmall(a, 2^(bits % 15), 0)

\* -1, 0 or 1 as a < b, a = b or a > b
BigCmp(a, b) ==
    IF Len(a) # Len(b) THEN (IF Len(a) > Len(b) THEN 1 ELSE -1)
    ELSE LET differ == {i \in 1..Len(a) : a[i] # b[i]}
         IN  IF differ = {} THEN 0
             ELSE LET i == CHOOSE i \in differ : \A j \in differ : j <= i
                  IN  IF a[i] > b[i] THEN 1 ELSE -1

RECURSIVE BigDivDigits(_, _, _, _)
\* quotient digits 1..i and remainder of a by d, r carried in from above
BigDivDigits(a, d, i, r) ==
    IF i = 0 THEN [q |-> <<>>, r |-> r]
    ELSE LET x == r * Base + a[i]
             low == BigDivDigits(a, d, i - 1, x % d)
         IN  [q |-> Append(low.q, x \div d), r |-> low.r]

\* quotient q and remainder r of a by d, for 0 < d < 2^16
BigDivSmall(a, d) ==
    LET qr == BigDivDigits(a, d, Len(a), 0)
    IN  [q |-> Normal(qr.q), r |-> qr.r]

\* a divided by 2^bits, rounded down
BigShr(a, bits) ==
    BigDivSmall(SubSeq(a, (bits \div 15) + 1, Len(a)), 2^(bits % 15)).q

RECURSIVE Bits(_)
\* number of binary digits of the natural number n
Bits(n) == IF n = 0 THEN 0 ELSE 1 + Bits(n \div 2)

BitLen(a) == IF a = <<>> THEN 0 ELSE 15 * (Len(a) - 1) + Bits(a[Len(a)])

\* the double nearest to a, ties to the even significand: the 53 leading
\* binary digits of a, rounded
Round53(a) ==
    LET s == BitLen(a) - 53
        q == BigShr(a, s)
        c == BigCmp(BigShl(a, 1), BigShl(BigAdd(BigShl(q, 1), <<1>>, 0), s))
        up == c > 0 \/ (c = 0 /\ q[1] % 2 = 1)
    IN  IF s <= 0 THEN a
        ELSE BigShl(IF up THEN BigAdd(q, <<1>>, 0) ELSE q, s)

\* the double of ms / 1000 seconds: the quotient with a sticky last bit,
\* rounded once
Double(ms) ==
    IF ms = 0 THEN <<>>
    ELSE LET d == BigDivSmall(BigShl(BigOf(ms), 77), 1000)
         IN  Round53(IF d.r # 0 /\ d.q[1] % 2 = 0
                     THEN BigAdd(d.q, <<1>>, 0) ELSE d.q)

\* x + y and x - y (x >= y) on doubles
FAdd(x, y) == Round53(BigAdd(x, y, 0))
FSub(x, y) == Round53(BigSub(x, y))

RECURSIVE CumSum(_, _)
\* the last element of np.cumsum over the doubles xs, continued from acc
CumSum(xs, acc) ==
    IF xs = <<>> THEN acc ELSE CumSum(Tail(xs), FAdd(acc, Head(xs)))

RECURSIVE AddTimes(_, _, _)
\* the last element of np.cumsum over n times the double x, continued from
\* acc: x is added n times, one addition after the other (the first
\* n \div 2 additions are evaluated, then the others are made on their sum)
AddTimes(acc, x, n) ==
    CASE n = 0 -> acc
      [] n = 1 -> FAdd(acc, x)
      [] OTHER ->
            CHOOSE sum \in {AddTimes(first, x, n - (n \div 2)) :
                                first \in {AddTimes(acc, x, n \div 2)}} : TRUE

\* x / y >= k for the double quotient x / y and an integer 0 <= k < Base:
\* the quotient rounds to k or above exactly if the exact quotient reaches
\* the midpoint between k and the double below k
QuotientAtLeast(x, y, k) ==
    \/ k = 0
    \/ LET p == Bits(k) - 1
           c == IF k = 2^p THEN p ELSE p + 1
       IN  BigCmp(BigAdd(BigShl(x, 54), BigShl(y, c), 0),
                  BigShl(BigMulSmall(y, k, 0), 54)) >= 0

RECURSIVE LargestQuotient(_, _, _, _)
\* the largest k in lo..hi with x / y >= k; lo is one
LargestQuotient(x, y, lo, hi) ==
    IF lo = hi THEN lo
    ELSE LET mid == (lo + hi + 1) \div 2
         IN  IF QuotientAtLeast(x, y, mid)
             THEN LargestQuotient(x, y, mid, hi)
             ELSE LargestQuotient(x, y, lo, mid - 1)

\* int(x / y) for doubles x >= 0 and y > 0
IntOfQuotient(x, y) ==
    LargestQuotient(x, y, 0, 2^Max(0, BitLen(x) - BitLen(y) + 1))

\* a point in time: its milliseconds and the double the program holds
Instant(ms, f) == [ms |-> ms, f |-> f]
DurationOf(c) == Instant(c.duration, c.duration_f)

(***************************************************************************)
(* The cover/crop step of create_video_from_images (lines 233-243) with    *)
(* moviepy's resize and crop.                                              *)
(***************************************************************************)
\* int(): truncation toward zero of the quotient a / b, b > 0
IntDiv(a, b) == IF a >= 0 THEN a \div b ELSE -((-a) \div b)

\* moviepy resize(height=h): newsize = [w * height / h, height], cut by int()
resize_height(size, height) == <<IntDiv(size[1] * height, size[2]), height>>

\* moviepy resize(width=w): newsize = [width, h * width / w], cut by int()
resize_width(size, width) == <<width, IntDiv(size[2] * width, size[1])>>

\* length of the numpy slice a[i:j] of an axis of length n
SliceLen(i, j, n) ==
    LET norm(k) == IF k < 0 THEN Max(k + n, 0) ELSE IF k > n THEN n ELSE k
    IN  Max(norm(j) - norm(i), 0)

\* moviepy crop(x_center, y_center, width, height): a centre that is 0 is
\* falsy and leaves that axis uncropped; otherwise x1 = x_center - width / 2,
\* x2 = x_center + width / 2 and the frame is pic[int(y1):int(y2), int(x1):int(x2)]
crop(size, x_center, y_center, width, height) ==
    LET x1 == IF x_center # 0 THEN IntDiv(2 * x_center - width, 2) ELSE 0
        x2 == IF x_center # 0 THEN IntDiv(2 * x_center + width, 2) ELSE size[1]
        y1 == IF y_center # 0 THEN IntDiv(2 * y_center - height, 2) ELSE 0
        y2 == IF y_center # 0 THEN IntDiv(2 * y_center + height, 2) ELSE size[2]
    IN  <<SliceLen(x1, x2, size[1]), SliceLen(y1, y2, size[2])>>

CoverCrop(size, target_width, target_height) ==
    LET resized == IF size[2] < size[1]
                   THEN resize_height(size, target_height)
                   ELSE resize_width(size, target_width)
    IN  IF resized[1] > target_width
        THEN crop(resized, resized[1] \div 2, resized[2] \div 2,
                  target_width, target_height)
        ELSE resized

Compose ==
    /\ composed = NoSize
    /\ composed' = CoverCrop(src_size, target_size[1], target_size[2])
    /\ UNCHANGED <<src_size, target_size, resolveVars, renderVars, helperVars>>

(***************************************************************************)
(* The file system the requests run against.                               *)
(***************************************************************************)
ImagePaths == {"land.jpg", "square.jpg", "folder", "missing.jpg"}
AudioPaths ==
    {"blip.mp3", "brief.mp3", "short.mp3", "mid.mp3", "long.mp3", "folder",
     "missing.mp3"}

FileKind(path) ==
    CASE path \in {"land.jpg", "square.jpg", "blip.mp3", "brief.mp3",
                    "short.mp3", "mid.mp3", "long.mp3"}
            -> "file"
      [] path = "folder" -> "dir"
      [] OTHER -> "missing"

\* os.path.exists and os.path.isfile
exists(path) == FileKind(path) # "missing"
isfile(path) == FileKind(path) = "file"

\* size of the decoded image
ImageSize(path) == IF path = "land.jpg" THEN <<1600, 900>> ELSE <<1000, 1000>>

\* duration of the decoded audio, in ms; blip.mp3 is a sound so short that
\* the duration read from its header is 0.0
AudioDuration(path) ==
    CASE path = "blip.mp3" -> 0
      [] path = "brief.mp3" -> 100
      [] path = "short.mp3" -> 2000
      [] path = "mid.mp3" -> 6000
      [] OTHER -> 10000

\* truth value of the audio argument: None and "" are falsy
Truthy(a) == a # None /\ a # ""

(***************************************************************************)
(* validate_media_files                                                    *)
(***************************************************************************)
RECURSIVE ImageErrors(_)
ImageErrors(imgs) ==
    IF imgs = <<>> THEN <<>>
    ELSE LET img_path == Head(imgs)
             e == IF ~exists(img_path)
                  THEN <<<<"image file does not exist: ", img_path>>>>
                  ELSE IF ~isfile(img_path)
                  THEN <<<<"not a valid image file: ", img_path>>>>
                  ELSE <<>>
         IN  e \o ImageErrors(Tail(imgs))

\* the audio check without its isfile test
AudioErrorsExistsOnly(aud) ==
    IF Truthy(aud)
    THEN IF ~exists(aud) THEN <<<<"audio file does not exist: ", aud>>>>
         ELSE <<>>
    ELSE <<>>

AudioErrors(aud) ==
    IF Truthy(aud)
    THEN IF ~exists(aud) THEN <<<<"audio file does not exist: ", aud>>>>
         ELSE IF ~isfile(aud) THEN <<<<"not a valid audio file: ", aud>>>>
         ELSE <<>>
    ELSE <<>>

\* valid decided by the image list alone instead of by the error list
validate_media_files_by_images(imgs, aud) ==
    LET errors == (IF imgs = <<>>
                   THEN <<<<"please upload at least one image", "">>>>
                   ELSE ImageErrors(imgs)) \o AudioErrors(aud)
    IN  [called |-> TRUE, valid |-> imgs # <<>>, errors |-> errors]

validate_media_files(imgs, aud) ==
    LET errors == (IF imgs = <<>>
                   THEN <<<<"please upload at least one image", "">>>>
                   ELSE ImageErrors(imgs)) \o AudioErrors(aud)
    IN  [called |-> TRUE, valid |-> Len(errors) = 0, errors |-> errors]

NotValidated == [called |-> FALSE, valid |-> FALSE, errors |-> <<>>]

(***************************************************************************)
(* Exceptions.  An exception is [type, msg]; msg is the sequence of the    *)
(* text fragments str(e) is made of.                                       *)
(***************************************************************************)
NoExc == [type |-> "none", msg |-> <<>>]
NoErr == [type |-> "none", msg |-> <<>>, cause |-> NoExc]

RECURSIVE Flatten(_)
Flatten(ss) == IF ss = <<>> THEN <<>> ELSE Head(ss) \o Flatten(Tail(ss))

\* line 227: ValueError(f"...: {', '.join(validation['errors'])}")
ValidationError(v) ==
    [type |-> "ValueError",
     msg |-> <<"input validation failed: ">> \o Flatten(v.errors)]

\* an exception raised inside moviepy, imageio, ffmpeg or tempfile
LibraryError == [type |-> "OSError", msg |-> <<"library message">>]

\* line 300: the quotient video.duration / audio_clip.duration of a duration
\* of 0.0, video.duration being a Python number
ZeroDivisionError ==
    [type |-> "ZeroDivisionError", msg |-> <<"float division by zero">>]

\* line 300: int() of the quotient inf that a numpy.float64 video.duration
\* divided by 0.0 gives
OverflowError ==
    [type |-> "OverflowError",
     msg |-> <<"cannot convert float infinity to integer">>]

\* lines 333-334: raise RuntimeError(f"...: {str(e)}") from e
RenderError(e) ==
    [type |-> "RuntimeError",
     msg |-> <<"video creation failed: ">> \o e.msg,
     cause |-> e]

\* the validation result computed but never acted upon
ValidationNeverRaises(v) == FALSE

\* line 226: if not validation['valid']: raise
ValidationRaises(v) == ~v.valid

(***************************************************************************)
(* Clips, timeline and audio track.                                        *)
(***************************************************************************)
\* the fade length the source hard-codes (0.5 s)
FixedFade == 500

Fx(name, arg) == <<name, arg>>

\* the animation picked per image (by the image's orientation) instead of
\* once per render from animation_type
MakeClipByOrientation(size, p) ==
    LET fitted == CoverCrop(size, p.target_width, p.target_height)
    IN  IF size[1] > size[2]
        THEN [size |-> fitted, duration |-> p.duration_per_image,
              fx |-> <<Fx("resize_t", 0)>>, pos |-> "center"]
        ELSE [size |-> fitted, duration |-> p.duration_per_image,
              fx |-> <<Fx("fadein", FixedFade), Fx("fadeout", FixedFade)>>,
              pos |-> "default"]

\* lines 233-265 for one image of decoded size `size`
MakeClip(size, p) ==
    LET fitted == CoverCrop(size, p.target_width, p.target_height)
    IN  CASE p.animation_type = "fade" ->
                [size |-> fitted, duration |-> p.duration_per_image,
                 fx |-> <<Fx("fadein", FixedFade), Fx("fadeout", FixedFade)>>,
                 pos |-> "default"]
          [] p.animation_type = "zoom" ->
                [size |-> fitted, duration |-> p.duration_per_image,
                 fx |-> <<Fx("resize_t", 0)>>, pos |-> "center"]
          [] p.animation_type = "pan" ->
                [size |-> <<IntDiv(12 * fitted[1], 10), IntDiv(12 * fitted[2], 10)>>,
                 duration |-> p.duration_per_image,
                 fx |-> <<Fx("resize", 12)>>, pos |-> "pan"]
          [] OTHER ->
                [size |-> fitted, duration |-> p.duration_per_image,
                 fx |-> <<>>, pos |-> "default"]

\* the library calls lines 233-263 make for one image of decoded size `size`,
\* in the order they are made
ComposeCalls(size, p) ==
    LET resized == IF size[2] < size[1]
                   THEN resize_height(size, p.target_height)
                   ELSE resize_width(size, p.target_width)
    IN  <<"ImageClip", "resize">>
            \o (IF resized[1] > p.target_width THEN <<"crop">> ELSE <<>>)
            \o <<"set_duration">>
            \o (CASE p.animation_type = "fade" -> <<"fx", "fx">>
                   [] p.animation_type \in {"zoom", "pan"} ->
                        <<"resize", "set_position">>
                   [] OTHER -> <<>>)

RECURSIVE SumDuration(_)
SumDuration(clips) ==
    IF clips = <<>> THEN 0 ELSE Head(clips).duration + SumDuration(Tail(clips))

RECURSIVE MaxDuration(_)
MaxDuration(clips) ==
    IF clips = <<>> THEN 0 ELSE Max(Head(clips).duration, MaxDuration(Tail(clips)))

RECURSIVE MaxWidth(_)
MaxWidth(clips) ==
    IF clips = <<>> THEN 0 ELSE Max(Head(clips).size[1], MaxWidth(Tail(clips)))

RECURSIVE MaxHeight(_)
MaxHeight(clips) ==
    IF clips = <<>> THEN 0 ELSE Max(Head(clips).size[2], MaxHeight(Tail(clips)))

RECURSIVE Doubles(_)
\* the doubles of the clips' durations
Doubles(clips) ==
    IF clips = <<>> THEN <<>>
    ELSE <<Double(Head(clips).duration)>> \o Doubles(Tail(clips))

\* an audio clip: duration, start and stop in ms, duration_f the double of
\* its duration, whole_f the double duration of the clip it was cut from,
\* reader whether its close() reaches the reader of the audio file
NoAudioTrack == [present |-> FALSE, duration |-> 0, copies |-> 0,
                 start |-> 0, stop |-> 0, duration_f |-> <<>>,
                 whole_f |-> <<>>, reader |-> FALSE]

NoVideo == [made |-> FALSE, parts |-> <<>>, size |-> <<0, 0>>, duration |-> 0,
            duration_f |-> <<>>, fx |-> <<>>, audio |-> NoAudioTrack, fps |-> 0]

\* all clips played at once instead of one after the other
concatenate_overlapping(clips) ==
    [made |-> TRUE, parts |-> clips,
     size |-> <<MaxWidth(clips), MaxHeight(clips)>>,
     duration |-> MaxDuration(clips),
     duration_f |-> Double(MaxDuration(clips)),
     fx |-> <<>>, audio |-> NoAudioTrack, fps |-> 0]

\* moviepy concatenate_videoclips(clips, method="compose"): the clips follow
\* each other, the frame is as large as the largest clip, the duration is the
\* last element of np.cumsum over the clips' durations
concatenate_videoclips(clips) ==
    [made |-> TRUE, parts |-> clips,
     size |-> <<MaxWidth(clips), MaxHeight(clips)>>,
     duration |-> SumDuration(clips),
     duration_f |-> CumSum(Doubles(clips), <<>>),
     fx |-> <<>>, audio |-> NoAudioTrack, fps |-> 0]

\* the loop of lines 273-277 without its test on the index
WithTransitionsOnAll(clips, transition_duration) ==
    [i \in 1..Len(clips) |->
        [clips[i] EXCEPT !.fx = @ \o <<Fx("fadeout", transition_duration)>>]]

\* lines 273-277: a fade-out on every clip but the last
WithTransitions(clips, transition_duration) ==
    [i \in 1..Len(clips) |->
        IF i < Len(clips)
        THEN [clips[i] EXCEPT !.fx = @ \o <<Fx("fadeout", transition_duration)>>]
        ELSE clips[i]]

\* the single-clip branch fading by transition_duration like the other branch
ScheduleClipsByTransition(clips, transition_duration) ==
    IF Len(clips) > 1
    THEN [concatenate_videoclips(WithTransitions(clips, transition_duration))
            EXCEPT !.fx = <<Fx("fadein", transition_duration)>>]
    ELSE [made |-> TRUE, parts |-> <<clips[1]>>, size |-> clips[1].size,
          duration |-> clips[1].duration,
          duration_f |-> Double(clips[1].duration),
          fx |-> <<Fx("fadein", transition_duration),
                   Fx("fadeout", transition_duration)>>,
          audio |-> NoAudioTrack, fps |-> 0]

\* lines 268-288
ScheduleClips(clips, transition_duration) ==
    IF Len(clips) > 1
    THEN [concatenate_videoclips(WithTransitions(clips, transition_duration))
            EXCEPT !.fx = <<Fx("fadein", transition_duration)>>]
    ELSE [made |-> TRUE, parts |-> <<clips[1]>>, size |-> clips[1].size,
          duration |-> clips[1].duration,
          duration_f |-> Double(clips[1].duration),
          fx |-> <<Fx("fadein", FixedFade), Fx("fadeout", FixedFade)>>,
          audio |-> NoAudioTrack, fps |-> 0]

\* line 286: video = image_clips[0]
FirstClip(clips) ==
    [made |-> TRUE, parts |-> <<clips[1]>>, size |-> clips[1].size,
     duration |-> clips[1].duration,
     duration_f |-> Double(clips[1].duration),
     fx |-> <<>>, audio |-> NoAudioTrack, fps |-> 0]

\* what `video` is bound to when a library call of lines 268-288 raises.
\* Several clips: nothing when a clip.fx of line 276 or the concatenation of
\* line 280 raises, the concatenation when the fx of line 283 raises.  One
\* clip: the clip itself when the fx of line 287 raises, the clip faded in
\* when the fx of line 288 raises
ScheduleInterrupted(clips, transition_duration) ==
    IF Len(clips) > 1
    THEN {NoVideo,
          concatenate_videoclips(WithTransitions(clips, transition_duration))}
    ELSE {FirstClip(clips),
          [FirstClip(clips) EXCEPT !.fx = <<Fx("fadein", FixedFade)>>]}

\* mpy.AudioFileClip(path)
AudioFileClip(path) ==
    [present |-> TRUE, duration |-> AudioDuration(path), copies |-> 1,
     start |-> 0, stop |-> AudioDuration(path),
     duration_f |-> Double(AudioDuration(path)),
     whole_f |-> Double(AudioDuration(path)), reader |-> TRUE]

\* clip.subclip(t_start, t_end): the duration becomes t_end - t_start; the
\* result is a copy of the clip, which shares its reader if it has one
subclip(c, t_start, t_end) ==
    [c EXCEPT !.duration = t_end.ms - t_start.ms,
              !.duration_f = FSub(t_end.f, t_start.f),
              !.whole_f = c.duration_f,
              !.start = t_start.ms, !.stop = t_end.ms]

\* mpy.concatenate_audioclips([c] * n): a CompositeAudioClip that lasts the
\* last element of np.cumsum over n times c.duration; its close() is the
\* empty Clip.close()
concatenate_audioclips(c, n) ==
    LET total_f == AddTimes(<<>>, c.duration_f, n)
    IN  [c EXCEPT !.duration = n * c.duration, !.copies = n,
                  !.start = 0, !.stop = n * c.duration,
                  !.duration_f = total_f, !.whole_f = total_f,
                  !.reader = FALSE]

\* the loop branch without its closing subclip
MixAudioUntrimmed(c, v) ==
    IF BigCmp(c.duration_f, v.duration_f) > 0
    THEN subclip(c, Instant(0, <<>>), DurationOf(v))
    ELSE IF BigCmp(c.duration_f, v.duration_f) < 0
    THEN concatenate_audioclips(
            c, IntOfQuotient(v.duration_f, c.duration_f) + 1)
    ELSE c

\* the trim branch keeping the end of the audio instead of its start
MixAudioKeepsTail(c, v) ==
    IF BigCmp(c.duration_f, v.duration_f) > 0
    THEN subclip(c, Instant(c.duration - v.duration,
                            FSub(c.duration_f, v.duration_f)),
                 DurationOf(c))
    ELSE IF BigCmp(c.duration_f, v.duration_f) < 0
    THEN LET loop_count == IntOfQuotient(v.duration_f, c.duration_f) + 1
         IN  subclip(concatenate_audioclips(c, loop_count),
                     Instant(0, <<>>), DurationOf(v))
    ELSE c

\* lines 296-302 for the clip c of the audio file and the video v, the
\* comparisons and the division on doubles
MixAudio(c, v) ==
    IF BigCmp(c.duration_f, v.duration_f) > 0
    THEN subclip(c, Instant(0, <<>>), DurationOf(v))
    ELSE IF BigCmp(c.duration_f, v.duration_f) < 0
    THEN LET loop_count == IntOfQuotient(v.duration_f, c.duration_f) + 1
         IN  subclip(concatenate_audioclips(c, loop_count),
                     Instant(0, <<>>), DurationOf(v))
    ELSE c

\* line 300 divides by the duration of the audio clip c: an audio of
\* duration 0.0 under a video that lasts longer
DividesByZero(c, v) ==
    c.duration_f = <<>> /\ BigCmp(c.duration_f, v.duration_f) < 0

\* what line 300 raises then.  The video of one clip is that clip (line
\* 286), whose duration is the Python number duration_per_image: the
\* division raises ZeroDivisionError.  The video of several clips comes from
\* concatenate_videoclips (line 280), whose duration is the numpy.float64 of
\* np.cumsum: the division gives inf and int(inf) raises OverflowError
DivisionError(v) ==
    IF Len(v.parts) > 1 THEN OverflowError ELSE ZeroDivisionError

\* what audio_clip is bound to when a library call of lines 297-305 raises,
\* the file of line 292 being open: the clip of the file when the subclip
\* of line 297 or the concatenation of line 301 raises, the concatenation
\* when the subclip of line 302 raises, the finished track when set_audio
\* of line 305 raises
MixInterrupted(c, v) ==
    IF BigCmp(c.duration_f, v.duration_f) > 0
    THEN {c, MixAudio(c, v)}
    ELSE IF BigCmp(c.duration_f, v.duration_f) < 0
    THEN {c,
          concatenate_audioclips(
              c, IntOfQuotient(v.duration_f, c.duration_f) + 1),
          MixAudio(c, v)}
    ELSE {MixAudio(c, v)}

(***************************************************************************)
(* create_video_from_images, one request r, step by step.                  *)
(***************************************************************************)
NoPath == <<>>
TmpPath(i) == <<"/tmp/tmp", i, ".mp4">>
TmpPaths == {TmpPath(i) : i \in 1..NumTmp}

\* a name handed out without looking at the files that exist
AnyTmpPath(existing) == TmpPaths

\* tempfile.NamedTemporaryFile(delete=False) creates a file that did not exist
FreshTmpPaths(existing) == TmpPaths \ existing

\* `if audio is not None` in place of `if audio`
HasAudioUnlessNone(a) == a # None

\* lines 291 and 328: if audio
HasAudio(a) == Truthy(a)

Stages ==
    {"validate", "compose", "schedule", "mix", "encode", "write", "close"}
RenderStages == Stages \ {"validate"}

ClipHandle(r, i) == <<r, "clip", i>>
AudioHandle(r) == <<r, "audio", 0>>
HandlesOf(r) == {h \in open : h[1] = r}

\* an exception e raised in `stage` reaches the handler of line 333 and is
\* swallowed: the path allocated so far is returned
RaiseSwallowed(r, stage, e) ==
    /\ pc' = [pc EXCEPT ![r] = "done"]
    /\ result' = [result EXCEPT ![r] = output_path[r]]
    /\ failed' = [failed EXCEPT ![r] = [stage |-> stage, exc |-> e]]
    /\ UNCHANGED err

\* an exception e raised in `stage` reaches the handler of line 333, which
\* raises the RuntimeError; nothing is returned
Raise(r, stage, e) ==
    /\ pc' = [pc EXCEPT ![r] = "error"]
    /\ err' = [err EXCEPT ![r] = RenderError(e)]
    /\ failed' = [failed EXCEPT ![r] = [stage |-> stage, exc |-> e]]
    /\ UNCHANGED result

Complete(r, stage) == done_stages' = [done_stages EXCEPT ![r] = @ \cup {stage}]

\* the output file allocated up front, before any other stage has run
ValidateAndAllocate(r) ==
    /\ pc[r] = "validate"
    /\ \E path \in FreshTmpPaths(tmpfiles) :
            /\ output_path' = [output_path EXCEPT ![r] = path]
            /\ tmpfiles' = tmpfiles \cup {path}
    /\ LET v == validate_media_files(images[r], audio[r])
       IN  /\ validation' = [validation EXCEPT ![r] = v]
           /\ IF ValidationRaises(v)
              THEN /\ Raise(r, "validate", ValidationError(v))
                   /\ UNCHANGED done_stages
              ELSE /\ pc' = [pc EXCEPT ![r] =
                                IF images[r] = <<>> THEN "schedule" ELSE "compose"]
                   /\ Complete(r, "validate")
                   /\ UNCHANGED <<err, failed, result>>
    /\ UNCHANGED <<helperVars, resolveVars, composeVars,
                   closed, images, audio, params, image_clips,
                   video, audio_clip, open, written>>

\* lines 225-227
Validate(r) ==
    /\ pc[r] = "validate"
    /\ LET v == validate_media_files(images[r], audio[r])
       IN  /\ validation' = [validation EXCEPT ![r] = v]
           /\ IF ValidationRaises(v)
              THEN /\ Raise(r, "validate", ValidationError(v))
                   /\ UNCHANGED done_stages
              ELSE /\ pc' = [pc EXCEPT ![r] =
                                IF images[r] = <<>> THEN "schedule" ELSE "compose"]
                   /\ Complete(r, "validate")
                   /\ UNCHANGED <<err, failed, result>>
    /\ UNCHANGED <<helperVars, resolveVars, composeVars,
                   closed, images, audio, params, image_clips,
                   video, audio_clip, output_path, open, tmpfiles, written>>

\* image_clips as one list shared by every call (a module-level list or a
\* mutable default argument) instead of the local of line 230
AppendClipShared(r, clip) ==
    [q \in DOMAIN image_clips |-> Append(image_clips[q], clip)]

\* lines 230 and 265: image_clips is a local list, image_clips.append(clip)
AppendClip(r, clip) == [image_clips EXCEPT ![r] = Append(@, clip)]

\* lines 231-265 for the next image; mpy.ImageClip raises on a path that is
\* not a regular file and may raise on a file it cannot decode.  Every
\* library call of the iteration may raise: when it is a call after line 233
\* the clip of line 233 exists, is not in image_clips and is never closed
ComposeClip(r) ==
    /\ pc[r] = "compose"
    /\ LET i == Len(image_clips[r]) + 1
           img_path == images[r][i]
           calls == ComposeCalls(ImageSize(img_path), params[r])
       IN  \/ /\ isfile(img_path)
              /\ image_clips' =
                    AppendClip(r, MakeClip(ImageSize(img_path), params[r]))
              /\ open' = open \cup {ClipHandle(r, i)}
              /\ IF i = Len(images[r])
                 THEN /\ pc' = [pc EXCEPT ![r] = "schedule"]
                      /\ Complete(r, "compose")
                 ELSE UNCHANGED <<pc, done_stages>>
              /\ UNCHANGED <<err, failed, result>>
           \/ /\ \E k \in DOMAIN calls :
                    /\ calls[k] # "ImageClip" => isfile(img_path)
                    /\ open' = IF calls[k] = "ImageClip" THEN open
                               ELSE open \cup {ClipHandle(r, i)}
              /\ Raise(r, "compose", LibraryError)
              /\ UNCHANGED <<image_clips, done_stages>>
    /\ UNCHANGED <<helperVars, resolveVars, composeVars,
                   closed, images, audio, params, validation,
                   video, audio_clip, output_path, tmpfiles, written>>

\* lines 268-288; image_clips[0] of an empty list raises IndexError, and
\* every library call (clip.fx, concatenate_videoclips, video.fx) may raise
Schedule(r) ==
    /\ pc[r] = "schedule"
    /\ IF image_clips[r] = <<>>
       THEN /\ Raise(r, "schedule",
                     [type |-> "IndexError", msg |-> <<"list index out of range">>])
            /\ UNCHANGED <<video, done_stages>>
       ELSE \/ /\ video' = [video EXCEPT ![r] =
                    ScheduleClips(image_clips[r], params[r].transition_duration)]
               /\ pc' = [pc EXCEPT ![r] = "mix"]
               /\ Complete(r, "schedule")
               /\ UNCHANGED <<err, failed, result>>
            \/ /\ \E reached \in
                        ScheduleInterrupted(image_clips[r],
                                            params[r].transition_duration) :
                    video' = [video EXCEPT ![r] = reached]
               /\ Raise(r, "schedule", LibraryError)
               /\ UNCHANGED done_stages
    /\ UNCHANGED <<helperVars, resolveVars, composeVars,
                   closed, images, audio, params, validation,
                   image_clips, audio_clip, output_path, open, tmpfiles, written>>

\* lines 291-305; mpy.AudioFileClip raises on a path that is not a regular
\* file and may raise on a file it cannot decode.  Once the file is open,
\* line 300 raises ZeroDivisionError or OverflowError on an audio of duration
\* 0.0, and every library call (subclip, concatenate_audioclips, set_audio) may raise:
\* audio_clip is bound and the file stays open
Mix(r) ==
    /\ pc[r] = "mix"
    /\ IF HasAudio(audio[r])
       THEN \/ /\ isfile(audio[r])
               /\ ~DividesByZero(AudioFileClip(audio[r]), video[r])
               /\ LET track == MixAudio(AudioFileClip(audio[r]), video[r])
                  IN  /\ audio_clip' = [audio_clip EXCEPT ![r] = track]
                      /\ video' = [video EXCEPT ![r].audio = track]
               /\ open' = open \cup {AudioHandle(r)}
               /\ pc' = [pc EXCEPT ![r] = "encode"]
               /\ Complete(r, "mix")
               /\ UNCHANGED <<err, failed, result>>
            \/ /\ Raise(r, "mix", LibraryError)
               /\ UNCHANGED <<audio_clip, video, open, done_stages>>
            \/ /\ isfile(audio[r])
               /\ DividesByZero(AudioFileClip(audio[r]), video[r])
               /\ audio_clip' =
                    [audio_clip EXCEPT ![r] = AudioFileClip(audio[r])]
               /\ open' = open \cup {AudioHandle(r)}
               /\ Raise(r, "mix", DivisionError(video[r]))
               /\ UNCHANGED <<video, done_stages>>
            \/ /\ isfile(audio[r])
               /\ ~DividesByZero(AudioFileClip(audio[r]), video[r])
               /\ \E reached \in
                        MixInterrupted(AudioFileClip(audio[r]), video[r]) :
                    audio_clip' = [audio_clip EXCEPT ![r] = reached]
               /\ open' = open \cup {AudioHandle(r)}
               /\ Raise(r, "mix", LibraryError)
               /\ UNCHANGED <<video, done_stages>>
       ELSE /\ pc' = [pc EXCEPT ![r] = "encode"]
            /\ Complete(r, "mix")
            /\ UNCHANGED <<audio_clip, video, open, err, failed, result>>
    /\ UNCHANGED <<helperVars, resolveVars, composeVars,
                   closed, images, audio, params, validation,
                   image_clips, output_path, tmpfiles, written>>

\* lines 308-313: video.set_fps, video.resize(width=..., height=...) in which
\* moviepy lets height decide, and the allocation of a fresh temporary file.
\* Each of the three calls may raise; `video` is rebound after each of the
\* first two
Encode(r) ==
    /\ pc[r] = "encode"
    /\ LET with_fps == [video[r] EXCEPT !.fps = params[r].fps]
           resized ==
                [with_fps EXCEPT
                    !.size = resize_height(@, params[r].target_height)]
       IN  \/ /\ \E path \in FreshTmpPaths(tmpfiles) :
                    /\ output_path' = [output_path EXCEPT ![r] = path]
                    /\ tmpfiles' = tmpfiles \cup {path}
              /\ video' = [video EXCEPT ![r] = resized]
              /\ pc' = [pc EXCEPT ![r] = "write"]
              /\ Complete(r, "encode")
              /\ UNCHANGED <<err, failed, result>>
           \/ /\ \E reached \in {video[r], with_fps, resized} :
                    video' = [video EXCEPT ![r] = reached]
              /\ Raise(r, "encode", LibraryError)
              /\ UNCHANGED <<output_path, tmpfiles, done_stages>>
    /\ UNCHANGED <<helperVars, resolveVars, composeVars,
                   closed, images, audio, params, validation,
                   image_clips, audio_clip, open, written>>

\* a failed write_videofile followed by os.remove(output_path)
WriteWithCleanup(r) ==
    /\ pc[r] = "write"
    /\ \/ /\ written' = written \cup {output_path[r]}
          /\ pc' = [pc EXCEPT ![r] = "close"]
          /\ Complete(r, "write")
          /\ UNCHANGED <<err, failed, result, tmpfiles>>
       \/ /\ Raise(r, "write", LibraryError)
          /\ tmpfiles' = tmpfiles \ {output_path[r]}
          /\ UNCHANGED <<written, done_stages>>
    /\ UNCHANGED <<helperVars, resolveVars, composeVars,
                   closed, images, audio, params, validation,
                   image_clips, video, audio_clip, output_path, open>>

\* lines 316-322: video.write_videofile(output_path, ...)
Write(r) ==
    /\ pc[r] = "write"
    /\ \/ /\ written' = written \cup {output_path[r]}
          /\ pc' = [pc EXCEPT ![r] = "close"]
          /\ Complete(r, "write")
          /\ UNCHANGED <<err, failed, result>>
       \/ /\ Raise(r, "write", LibraryError)
          /\ UNCHANGED <<written, done_stages>>
    /\ UNCHANGED <<helperVars, resolveVars, composeVars,
                   closed, images, audio, params, validation,
                   image_clips, video, audio_clip, output_path, open, tmpfiles>>

\* the close() calls of lines 325-329: video.close(), one clip.close() per
\* image clip and, if audio, audio_clip.close()
CloseCalls(r) ==
    1 + Len(image_clips[r]) + (IF HasAudio(audio[r]) THEN 1 ELSE 0)

\* the handles the first k of these calls release.  video.close() closes
\* video.audio when video is the CompositeVideoClip of several clips;
\* closing an audio clip releases the file's reader only if the clip is the
\* AudioFileClip or a subclip of it, not the concatenation of the loop branch
ReleasedBy(r, k) ==
    LET n == Len(image_clips[r])
        reader == IF HasAudio(audio[r]) /\ audio_clip[r].reader
                  THEN {AudioHandle(r)} ELSE {}
    IN  (IF k >= 1 /\ n > 1 THEN reader ELSE {})
            \cup {ClipHandle(r, i) : i \in {j \in 1..n : j + 1 <= k}}
            \cup (IF k >= n + 2 THEN reader ELSE {})

\* lines 325-331: the close() calls, then return output_path; a close()
\* that raises leaves what the calls after it would have released open
Close(r) ==
    /\ pc[r] = "close"
    /\ \/ /\ open' = open \ ReleasedBy(r, CloseCalls(r))
          /\ closed' = closed \cup ReleasedBy(r, CloseCalls(r))
          /\ result' = [result EXCEPT ![r] = output_path[r]]
          /\ pc' = [pc EXCEPT ![r] = "done"]
          /\ Complete(r, "close")
          /\ UNCHANGED <<err, failed>>
       \/ /\ \E k \in 0..(CloseCalls(r) - 1) :
                /\ open' = open \ ReleasedBy(r, k)
                /\ closed' = closed \cup ReleasedBy(r, k)
          /\ Raise(r, "close", LibraryError)
          /\ UNCHANGED done_stages
    /\ UNCHANGED <<helperVars, resolveVars, composeVars,
                   images, audio, params, validation,
                   image_clips, video, audio_clip, output_path,
                   tmpfiles, written>>

(***************************************************************************)
(* create_video_with_ai and analyze_images_and_generate_script, step by    *)
(* step, against the methods class OpenAIClient defines.                   *)
(***************************************************************************)
\* the public methods of class OpenAIClient (openai_client.py lines 46-335)
ClientMethods ==
    {"generate_response", "generate_destination_recommendations",
     "generate_itinerary_plan", "generate_checklist", "analyze_images",
     "generate_video_script"}

AIIdle ==
    [pc |-> "idle", images |-> <<>>, audio |-> None, image_descriptions |-> <<>>,
     script |-> [kind |-> "none"], video_path |-> NoPath,
     exc |-> <<>>, msg |-> <<>>]

\* an exception of type `type` raised inside analyze_images_and_generate_script:
\* line 111 wraps it in a RuntimeError and line 196 wraps that one again
AnalysisFails(a, type, msg) ==
    [a EXCEPT !.pc = "error",
              !.exc = <<"RuntimeError", "RuntimeError", type>>,
              !.msg = <<"AI video creation failed: ",
                        "AI analysis and script generation failed: ", msg>>]

\* an exception e raised inside create_video_from_images (line 183): line 334
\* wraps it in a RuntimeError and line 196 wraps that one again
RenderFails(a, e) ==
    [a EXCEPT !.pc = "error",
              !.exc = <<"RuntimeError", "RuntimeError", e.type>>,
              !.msg = <<"AI video creation failed: ">> \o RenderError(e).msg]

\* the scripts the script-generation service answers with
AIScripts ==
    {[kind |-> "object", fps |-> JInt(30), duration_per_image |-> JFloat(1500),
      transition_duration |-> JFloat(500), animation_type |-> JStr("zoom")],
     [kind |-> "invalid", fps |-> Absent, duration_per_image |-> Absent,
      transition_duration |-> Absent, animation_type |-> Absent]}

\* line 65: openai_client = OpenAIClient(); _initialize_client raises
\* ValueError when API_KEY is not set (openai_client.py lines 38-39)
AIConstruct ==
    /\ ai.pc = "client"
    /\ IF api_key = ""
       THEN ai' = AnalysisFails(ai, "ValueError", "API key not set")
       ELSE ai' = [ai EXCEPT !.pc = IF ai.images = <<>> THEN "script"
                                    ELSE "analyze"]
    /\ UNCHANGED <<api_key, resolveVars, composeVars, renderVars, clientVars,
                   truncateVars, hotelVars>>

\* lines 69-73 for the next image: the attribute lookup
\* openai_client.analyze_image_with_qwen, then the call
AIAnalyzeImage ==
    /\ ai.pc = "analyze"
    /\ LET i == Len(ai.image_descriptions) + 1
       IN  IF "analyze_image_with_qwen" \in ClientMethods
           THEN \/ ai' = [ai EXCEPT
                            !.image_descriptions =
                                Append(@, <<"image", i, ": ", ai.images[i]>>),
                            !.pc = IF i = Len(ai.images) THEN "script"
                                   ELSE "analyze"]
                \/ ai' = AnalysisFails(ai, "Exception", "API call failed")
           ELSE ai' = AnalysisFails(ai, "AttributeError",
                        "no attribute analyze_image_with_qwen")
    /\ UNCHANGED <<api_key, resolveVars, composeVars, renderVars, clientVars,
                   truncateVars, hotelVars>>

\* line 103: the attribute lookup openai_client.generate_response_with_deepseek
\* and the call; then lines 105-108 and 176-193: parse the script, render,
\* return the three results.  The render raises the ValueError of line 227
\* when validate_media_files rejects the arguments, and otherwise returns a
\* path or fails inside a library call
AIGenerateScript ==
    /\ ai.pc = "script"
    /\ IF "generate_response_with_deepseek" \in ClientMethods
       THEN \/ \E s \in AIScripts :
                 /\ parse_video_script(s).state = "returned"
                 /\ LET v == validate_media_files(ai.images, ai.audio)
                    IN  IF ValidationRaises(v)
                        THEN ai' = RenderFails([ai EXCEPT !.script = s],
                                               ValidationError(v))
                        ELSE \/ \E path \in FreshTmpPaths(tmpfiles) :
                                  ai' = [ai EXCEPT !.script = s,
                                                   !.video_path = path,
                                                   !.pc = "done"]
                             \/ ai' = RenderFails([ai EXCEPT !.script = s],
                                                  LibraryError)
            \/ ai' = AnalysisFails(ai, "Exception", "API call failed")
       ELSE ai' = AnalysisFails(ai, "AttributeError",
                    "no attribute generate_response_with_deepseek")
    /\ UNCHANGED <<api_key, resolveVars, composeVars, renderVars, clientVars,
                   truncateVars, hotelVars>>

(***************************************************************************)
(* get_client (openai_client.py lines 338-346), one thread t at a time.    *)
(***************************************************************************)
NumThreads == 2
MaxCalls == 2

Threads == DOMAIN gc

\* lines 343-344: the call and the test `_client_instance is None`
GetClientCheck(t) ==
    /\ gc[t].pc \in {"idle", "returned", "raised"}
    /\ gc[t].calls < MaxCalls
    /\ gc' = [gc EXCEPT ![t].calls = @ + 1,
                        ![t].pc = IF client_instance = 0 THEN "construct"
                                  ELSE "return"]
    /\ UNCHANGED <<client_instance, created, returned>>
    /\ UNCHANGED <<api_key, resolveVars, composeVars, renderVars, aiVars,
                   truncateVars, hotelVars>>

\* line 345, right-hand side: OpenAIClient(); __init__ raises ValueError when
\* API_KEY is not set and the exception leaves get_client
GetClientConstruct(t) ==
    /\ gc[t].pc = "construct"
    /\ IF api_key = ""
       THEN /\ gc' = [gc EXCEPT ![t].pc = "raised"]
            /\ UNCHANGED created
       ELSE /\ created' = created + 1
            /\ gc' = [gc EXCEPT ![t].pc = "assign", ![t].new = created + 1]
    /\ UNCHANGED <<client_instance, returned>>
    /\ UNCHANGED <<api_key, resolveVars, composeVars, renderVars, aiVars,
                   truncateVars, hotelVars>>

\* line 345, the store into the global
GetClientAssign(t) ==
    /\ gc[t].pc = "assign"
    /\ client_instance' = gc[t].new
    /\ gc' = [gc EXCEPT ![t].pc = "return"]
    /\ UNCHANGED <<created, returned>>
    /\ UNCHANGED <<api_key, resolveVars, composeVars, renderVars, aiVars,
                   truncateVars, hotelVars>>

\* line 346: return _client_instance, a read of the global
GetClientReturn(t) ==
    /\ gc[t].pc = "return"
    /\ gc' = [gc EXCEPT ![t].pc = "returned", ![t].ret = client_instance]
    /\ returned' = returned \cup {client_instance}
    /\ UNCHANGED <<client_instance, created>>
    /\ UNCHANGED <<api_key, resolveVars, composeVars, renderVars, aiVars,
                   truncateVars, hotelVars>>

(***************************************************************************)
(* truncate_text (helpers.py lines 158-172).  A text is a sequence of      *)
(* characters.                                                             *)
(***************************************************************************)
MaxTextLen == 4

Chars == {"a", "."}

Texts == UNION {[1..n -> Chars] : n \in 0..MaxTextLen}

\* the Python slice s[:k]: a negative k counts from the end
SliceTo(s, k) ==
    LET stop == IF k < 0
                THEN (IF Len(s) + k < 0 THEN 0 ELSE Len(s) + k)
                ELSE (IF k > Len(s) THEN Len(s) ELSE k)
    IN  SubSeq(s, 1, stop)

\* lines 169-172
truncate_text(t, m) ==
    IF Len(t) <= m THEN t ELSE SliceTo(t, m - 3) \o <<".", ".", ".">>

Truncate ==
    /\ truncated.state = "pending"
    /\ truncated' = Returned(truncate_text(text, max_length))
    /\ UNCHANGED <<text, max_length>>
    /\ UNCHANGED <<api_key, resolveVars, composeVars, renderVars, aiVars,
                   clientVars, hotelVars>>

(***************************************************************************)
(* extract_hotels_from_itinerary (helpers.py lines 230-269).  A text is a  *)
(* sequence of characters; a Chinese character is written by its pinyin    *)
(* ("ru","zhu" is the word for checking in, "jiu","dian" the word hotel),  *)
(* a full-width punctuation mark by a name starting with fw_, any other    *)
(* character outside ASCII by u and the four hex digits of its code point. *)
(***************************************************************************)
\* the characters the groups [^\n，,。.] exclude
Delims == {"\n", "fw_comma", ",", "fw_stop", "."}

\* \s of a str pattern, and what str.strip() removes: the characters for
\* which str.isspace() holds
WhiteSpace ==
    {"\t", "\n", "u000b", "u000c", "\r", "u001c", "u001d", "u001e", "u001f",
     " ", "u0085", "u00a0", "u1680", "u2000", "u2001", "u2002", "u2003",
     "u2004", "u2005", "u2006", "u2007", "u2008", "u2009", "u200a", "u2028",
     "u2029", "u202f", "u205f", "u3000"}

\* [：:]
Colons == {"fw_colon", ":"}

\* [-•]
Bullets == {"-", "bullet"}

\* the alternations of lines 247-253
StayWords == << <<"ru", "zhu">>, <<"zhu", "su">>, <<"xia", "ta">> >>
HotelWords ==
    << <<"jiu", "dian">>, <<"bin", "guan">>, <<"du", "jia", "cun">>,
       <<"ke", "zhan">> >>
RecommendWords ==
    << <<"tui", "jian", "jiu", "dian">>, <<"tui", "jian", "zhu", "su">> >>
EnglishWords ==
    << <<"h", "o", "t", "e", "l">>, <<"r", "e", "s", "o", "r", "t">>,
       <<"i", "n", "n">>, <<"m", "o", "t", "e", "l">> >>
LocatedWords == << <<"wei", "yu">>, <<"zai">> >>
BookWords == << <<"yud", "ding">>, <<"yud", "yue">> >>

\* re.IGNORECASE on the letters of the English keywords: the capital, and
\* the characters whose case folding is the letter (long s for s, dotted
\* capital I and dotless i for i)
Lower(c) ==
    CASE c = "H" -> "h" [] c = "O" -> "o" [] c = "T" -> "t" [] c = "E" -> "e"
      [] c = "L" -> "l" [] c = "R" -> "r" [] c = "S" -> "s" [] c = "I" -> "i"
      [] c = "N" -> "n" [] c = "M" -> "m"
      [] c = "u017f" -> "s" [] c = "u0130" -> "i" [] c = "u0131" -> "i"
      [] OTHER -> c

\* the word kw stands in t at position p
MatchesAt(t, kw, p) ==
    /\ p + Len(kw) - 1 <= Len(t)
    /\ \A j \in 1..Len(kw) : Lower(t[p + j - 1]) = kw[j]

\* length of the first alternative of kws that stands at p, 0 if none does
KwLenAt(t, kws, p) ==
    LET hits == {a \in 1..Len(kws) : MatchesAt(t, kws[a], p)}
    IN  IF hits = {} THEN 0
        ELSE Len(kws[CHOOSE a \in hits : \A b \in hits : a <= b])

\* last index of the run of [^\n，,。.] that starts at p (p - 1 if empty)
RECURSIVE RunEnd(_, _)
RunEnd(t, p) ==
    IF p > Len(t) THEN p - 1
    ELSE IF t[p] \in Delims THEN p - 1 ELSE RunEnd(t, p + 1)

\* last index of the run of \s that starts at p (p - 1 if empty)
RECURSIVE SpaceEnd(_, _)
SpaceEnd(t, p) ==
    IF p > Len(t) THEN p - 1
    ELSE IF t[p] \notin WhiteSpace THEN p - 1 ELSE SpaceEnd(t, p + 1)

\* a match is <<first, last>>, the span of its group; NoMatch when none
NoMatch == <<0, 0>>

\* word [：:] \s* ([^\n，,。.]+) tried at p: \s* is greedy and gives back
\* characters until the group can start
LabelledAt(t, kws, p) ==
    LET kl == KwLenAt(t, kws, p)
        c  == p + kl
        w  == SpaceEnd(t, c + 1)
        starts == {k \in (c + 1)..(w + 1) : IF k <= Len(t)
                                            THEN t[k] \notin Delims ELSE FALSE}
        k  == CHOOSE x \in starts : \A y \in starts : y <= x
    IN  IF kl = 0 \/ c > Len(t) THEN NoMatch
        ELSE IF t[c] \notin Colons THEN NoMatch
        ELSE IF starts = {} THEN NoMatch
        ELSE <<k, RunEnd(t, k)>>

\* ([^\n，,。.]* word [^\n，,。.]*) with the group starting at g: the whole
\* run from g when a word of kws stands inside it
SegmentFrom(t, kws, g) ==
    LET e == RunEnd(t, g)
    IN  IF \E q \in g..e : /\ KwLenAt(t, kws, q) > 0
                           /\ q + KwLenAt(t, kws, q) - 1 <= e
        THEN <<g, e>> ELSE NoMatch

\* (?:pre)(group) tried at p
PrefixedAt(t, pre, kws, p) ==
    LET kl == KwLenAt(t, pre, p)
    IN  IF kl = 0 THEN NoMatch ELSE SegmentFrom(t, kws, p + kl)

\* [-•]\s*(group) tried at p (line 262)
ListAt(t, kws, p) ==
    IF t[p] \notin Bullets THEN NoMatch
    ELSE SegmentFrom(t, kws, SpaceEnd(t, p + 1) + 1)

\* the seven hotel_patterns of lines 247-253, and the list pattern as the 8th
NumPatterns == 8

PatternAt(t, pat, p) ==
    CASE pat = 1 -> LabelledAt(t, StayWords, p)
      [] pat = 2 -> LabelledAt(t, HotelWords, p)
      [] pat = 3 -> LabelledAt(t, RecommendWords, p)
      [] pat = 4 -> SegmentFrom(t, HotelWords, p)
      [] pat = 5 -> SegmentFrom(t, EnglishWords, p)
      [] pat = 6 -> PrefixedAt(t, LocatedWords, HotelWords, p)
      [] pat = 7 -> PrefixedAt(t, BookWords, HotelWords, p)
      [] OTHER   -> ListAt(t, HotelWords, p)

\* re.findall(pattern, text) from position p on: the groups of the
\* non-overlapping matches, leftmost first
RECURSIVE FindAll(_, _, _)
FindAll(t, pat, p) ==
    IF p > Len(t) THEN <<>>
    ELSE LET m == PatternAt(t, pat, p)
         IN  IF m = NoMatch THEN FindAll(t, pat, p + 1)
             ELSE <<SubSeq(t, m[1], m[2])>> \o FindAll(t, pat, m[2] + 1)

\* lines 256-263: hotels.extend(matches) for each pattern in turn
RECURSIVE FindAllPatterns(_, _)
FindAllPatterns(t, pat) ==
    IF pat > NumPatterns THEN <<>>
    ELSE FindAll(t, pat, 1) \o FindAllPatterns(t, pat + 1)

\* str.strip()
Strip(h) ==
    LET keep == {i \in 1..Len(h) : h[i] \notin WhiteSpace}
    IN  IF keep = {} THEN <<>>
        ELSE SubSeq(h, CHOOSE i \in keep : \A j \in keep : i <= j,
                       CHOOSE i \in keep : \A j \in keep : j <= i)

\* line 266: [hotel.strip() for hotel in hotels if hotel.strip()]
RECURSIVE Clean(_)
Clean(hs) ==
    IF hs = <<>> THEN <<>>
    ELSE IF Strip(Head(hs)) = <<>> THEN Clean(Tail(hs))
    ELSE <<Strip(Head(hs))>> \o Clean(Tail(hs))

\* list(dict.fromkeys(hotels)): the first occurrence of each entry, in order
RECURSIVE Dedup(_)
Dedup(hs) ==
    IF hs = <<>> THEN <<>>
    ELSE LET front == Dedup(SubSeq(hs, 1, Len(hs) - 1))
         IN  IF \E i \in DOMAIN front : front[i] = hs[Len(hs)]
             THEN front ELSE Append(front, hs[Len(hs)])

\* the limit of line 267
MaxHotels == 10

extract_hotels_from_itinerary(t) ==
    IF t = <<>> THEN <<>>
    ELSE LET unique == Dedup(Clean(FindAllPatterns(t, 1)))
         IN  SubSeq(unique, 1, IF Len(unique) < MaxHotels THEN Len(unique)
                                ELSE MaxHotels)

ExtractHotels ==
    /\ hotels.state = "pending"
    /\ hotels' = Returned(extract_hotels_from_itinerary(itinerary))
    /\ UNCHANGED itinerary
    /\ UNCHANGED <<api_key, resolveVars, composeVars, renderVars, aiVars,
                   clientVars, truncateVars>>

Empty == <<>>

InitAIIdle == ai = AIIdle

InitClientIdle ==
    client_instance = 0 /\ created = 0 /\ gc = Empty /\ returned = {}

InitTruncateIdle == text = <<>> /\ max_length = 0 /\ truncated = Pending

InitHotelsIdle == itinerary = <<>> /\ hotels = Pending

InitHelpersIdle ==
    /\ api_key = ""
    /\ InitAIIdle /\ InitClientIdle /\ InitTruncateIdle /\ InitHotelsIdle

InitRenderIdle ==
    /\ images = Empty /\ audio = Empty /\ params = Empty /\ pc = Empty
    /\ validation = Empty /\ image_clips = Empty /\ video = Empty
    /\ audio_clip = Empty /\ output_path = Empty /\ result = Empty
    /\ err = Empty /\ failed = Empty /\ done_stages = Empty
    /\ open = {} /\ closed = {} /\ tmpfiles = {} /\ written = {}

InitResolveIdle == script = [kind |-> "none"] /\ parsed = Pending

InitComposeIdle == src_size = NoSize /\ target_size = NoSize /\ composed = NoSize

InitResolve ==
    /\ script \in Scripts
    /\ parsed = Pending
    /\ InitComposeIdle
    /\ InitRenderIdle
    /\ InitHelpersIdle

NextResolve == Resolve

SpecResolve == InitResolve /\ [][NextResolve]_vars

InitCompose ==
    /\ src_size \in (1..MaxDim) \X (1..MaxDim)
    /\ target_size \in (1..MaxDim) \X (1..MaxDim)
    /\ composed = NoSize
    /\ InitResolveIdle
    /\ InitRenderIdle
    /\ InitHelpersIdle

NextCompose == Compose

SpecCompose == InitCompose /\ [][NextCompose]_vars

ImageLists == UNION {[1..n -> ImagePaths] : n \in 0..MaxImages}

AudioArgs == {None, ""} \cup AudioPaths

\* fps, lengths and animation a caller passes; the target size is the default
ParamSets ==
    [fps : {24}, duration_per_image : {2000, 2400, 3000},
     transition_duration : {0, 500, 3000}, animation_type : AnimationTypes,
     target_width : {720}, target_height : {1280}]

\* the requests reqs at their entry, their arguments drawn from the given sets
InitRenderWith(reqs, imageLists, audioArgs, paramSets) ==
    /\ images \in [reqs -> imageLists]
    /\ audio \in [reqs -> audioArgs]
    /\ params \in [reqs -> paramSets]
    /\ pc = [r \in reqs |-> "validate"]
    /\ validation = [r \in reqs |-> NotValidated]
    /\ image_clips = [r \in reqs |-> <<>>]
    /\ video = [r \in reqs |-> NoVideo]
    /\ audio_clip = [r \in reqs |-> NoAudioTrack]
    /\ output_path = [r \in reqs |-> NoPath]
    /\ result = [r \in reqs |-> NoPath]
    /\ err = [r \in reqs |-> NoErr]
    /\ failed = [r \in reqs |-> [stage |-> "none", exc |-> NoExc]]
    /\ done_stages = [r \in reqs |-> {}]
    /\ open = {} /\ closed = {} /\ tmpfiles = {} /\ written = {}

InitRender(reqs) == InitRenderWith(reqs, ImageLists, AudioArgs, ParamSets)

Init ==
    /\ InitResolveIdle /\ InitComposeIdle /\ InitHelpersIdle
    /\ InitRender({1})

Requests == DOMAIN pc

Next ==
    \E r \in Requests :
        \/ Validate(r)
        \/ ComposeClip(r)
        \/ Schedule(r)
        \/ Mix(r)
        \/ Encode(r)
        \/ Write(r)
        \/ Close(r)

Spec == Init /\ [][Next]_vars

(***************************************************************************)
(* Two requests running create_video_from_images at the same time, their   *)
(* steps interleaved in every order.                                       *)
(***************************************************************************)
TwoImageLists == {<<"land.jpg">>, <<"land.jpg", "square.jpg">>, <<"missing.jpg">>}

TwoAudioArgs == {None, "short.mp3"}

TwoParamSets ==
    [fps : {24}, duration_per_image : {2000}, transition_duration : {500},
     animation_type : {"fade"}, target_width : {720}, target_height : {1280}]

InitTwo ==
    /\ InitResolveIdle
    /\ InitComposeIdle
    /\ InitHelpersIdle
    /\ InitRenderWith({1, 2}, TwoImageLists, TwoAudioArgs, TwoParamSets)

SpecTwo == InitTwo /\ [][Next]_vars

\* create_video_from_images called directly (lines 199-206): the keyword
\* arguments are whatever the caller passes, in or out of their domains
DirectImageLists == {<<"land.jpg">>, <<"land.jpg", "square.jpg">>}
DirectAudioArgs == {None, "short.mp3"}
DirectParamSets ==
    [fps : {24}, duration_per_image : {2000},
     transition_duration : {500, -500}, animation_type : {"fade", "pan", "spin"},
     target_width : {720}, target_height : {1280}]

InitDirect ==
    /\ InitResolveIdle /\ InitComposeIdle /\ InitHelpersIdle
    /\ InitRenderWith({1}, DirectImageLists, DirectAudioArgs, DirectParamSets)

SpecDirect == InitDirect /\ [][Next]_vars

\* scripts and direct calls whose transition is as long as a clip or longer:
\* the resolver (lines 141-145) and the render (lines 273-283) side by side
LengthScripts ==
    [kind : {"object"}, fps : {Absent},
     duration_per_image : {Absent, JInt(2), JFloat(1500)},
     transition_duration : {JFloat(500), JFloat(1500), JInt(2), JInt(3)},
     animation_type : {Absent}]

LengthParamSets ==
    [fps : {24}, duration_per_image : {2000},
     transition_duration : {500, 2000, 3000}, animation_type : {"fade"},
     target_width : {720}, target_height : {1280}]

InitLengths ==
    /\ script \in LengthScripts
    /\ parsed = Pending
    /\ InitComposeIdle
    /\ InitHelpersIdle
    /\ InitRenderWith({1}, DirectImageLists, DirectAudioArgs, LengthParamSets)

NextLengths == Resolve \/ Next

SpecLengths == InitLengths /\ [][NextLengths]_vars

\* create_video_with_ai(images, audio) at its entry
AIImageLists == UNION {[1..n -> {"land.jpg", "square.jpg"}] : n \in 0..MaxImages}

InitAI ==
    /\ InitResolveIdle /\ InitComposeIdle /\ InitRenderIdle
    /\ InitClientIdle /\ InitTruncateIdle /\ InitHotelsIdle
    /\ api_key \in {"", "sk"}
    /\ \E imgs \in AIImageLists, aud \in {None, "short.mp3", "long.mp3"} :
            ai = [AIIdle EXCEPT !.pc = "client", !.images = imgs, !.audio = aud]

NextAI == AIConstruct \/ AIAnalyzeImage \/ AIGenerateScript

SpecAI == InitAI /\ [][NextAI]_vars

\* NumThreads threads that call get_client, none inside it yet
InitClient ==
    /\ InitResolveIdle /\ InitComposeIdle /\ InitRenderIdle
    /\ InitAIIdle /\ InitTruncateIdle /\ InitHotelsIdle
    /\ api_key \in {"", "sk"}
    /\ client_instance = 0 /\ created = 0 /\ returned = {}
    /\ gc = [t \in 1..NumThreads |->
                [pc |-> "idle", calls |-> 0, new |-> 0, ret |-> 0]]

NextClient ==
    \E t \in Threads :
        \/ GetClientCheck(t) \/ GetClientConstruct(t)
        \/ GetClientAssign(t) \/ GetClientReturn(t)

SpecClient == InitClient /\ [][NextClient]_vars

InitTruncate ==
    /\ InitResolveIdle /\ InitComposeIdle /\ InitRenderIdle
    /\ InitAIIdle /\ InitClientIdle /\ InitHotelsIdle
    /\ api_key = ""
    /\ text \in Texts
    /\ max_length \in 0..MaxTextLen
    /\ truncated = Pending

NextTruncate == Truncate

SpecTruncate == InitTruncate /\ [][NextTruncate]_vars

\* itineraries: up to MaxPhrases words and marks in a row, and one itinerary
\* of LongLines lines, each naming a hotel after the lodging label
MaxPhrases == 4

Phrases ==
    {<<"ru", "zhu">>, <<"zhu", "su">>, <<"tui", "jian">>, <<"jiu", "dian">>,
     <<"zai">>, <<"fw_colon">>, <<"x">>, <<" ">>, <<"\n">>, <<"-">>,
     <<"\r">>, <<"u3000">>, <<"u0131", "n", "n">>}

LongLines == 6

HotelLine(i) ==
    <<"zhu", "su", "fw_colon">> \o [j \in 1..i |-> "x"] \o <<"jiu", "dian", "\n">>

LongItinerary == Flatten([i \in 1..LongLines |-> HotelLine(i)])

Itineraries ==
    {Flatten(ps) : ps \in UNION {[1..n -> Phrases] : n \in 0..MaxPhrases}}
        \cup {LongItinerary}

InitHotels ==
    /\ InitResolveIdle /\ InitComposeIdle /\ InitRenderIdle
    /\ InitAIIdle /\ InitClientIdle /\ InitTruncateIdle
    /\ api_key = ""
    /\ itinerary \in Itineraries
    /\ hotels = Pending

NextHotels == ExtractHotels

SpecHotels == InitHotels /\ [][NextHotels]_vars

(***************************************************************************)
(* Properties.                                                             *)
(***************************************************************************)
IsRegularFile(path) == FileKind(path) = "file"

AfterMix(r) == pc[r] \in {"encode", "write", "close", "done"}

\* C1: parse_video_script never raises, whatever the script is, and the
\* parameters it returns have fps > 0, duration_per_image > 0,
\* transition_duration >= 0 and animation_type in {fade, zoom, pan}.
C1_ResolveNeverRaisesAndIsValid ==
    parsed.state # "pending" =>
        /\ parsed.state = "returned"
        /\ GtZero(parsed.value.fps)
        /\ GtZero(parsed.value.duration_per_image)
        /\ GeqZero(parsed.value.transition_duration)
        /\ parsed.value.animation_type.t = "str"
        /\ parsed.value.animation_type.v \in AnimationTypes

\* C2: for every source size and every target size the clip left by the
\* resize and centre crop is exactly target_width x target_height.
C2_ComposeYieldsExactTarget ==
    composed # NoSize => composed = target_size

\* C3: whenever an audio asset is supplied, the audio track attached to the
\* video lasts exactly as long as the video, whether the audio was longer
\* than, shorter than or as long as the video.
C3_AudioTrackMatchesVideo ==
    \A r \in Requests :
        (AfterMix(r) /\ Truthy(audio[r])) =>
            /\ video[r].audio.present
            /\ video[r].audio = audio_clip[r]
            /\ video[r].audio.duration = video[r].duration
            /\ video[r].audio.duration_f = video[r].duration_f

C3_Witness ==
    \E r \in Requests :
        /\ pc[r] = "done"
        /\ Truthy(audio[r])
        /\ video[r].audio.copies > 1
        /\ AudioDuration(audio[r]) < video[r].duration
        /\ video[r].audio.duration = video[r].duration

\* C4: every clip lasts duration_per_image and the timeline lasts the sum of
\* the clip durations, N x duration_per_image, for every transition_duration
\* and animation_type.
C4_TimelineIsSumOfClips ==
    \A r \in Requests :
        /\ \A i \in DOMAIN image_clips[r] :
                image_clips[r][i].duration = params[r].duration_per_image
        /\ video[r].made =>
            /\ \A i \in DOMAIN video[r].parts :
                    video[r].parts[i].duration = params[r].duration_per_image
            /\ video[r].duration = SumDuration(image_clips[r])
            /\ video[r].duration = Len(images[r]) * params[r].duration_per_image

C4_Witness ==
    \E r \in Requests :
        /\ pc[r] = "done"
        /\ Len(images[r]) >= 2
        /\ params[r].transition_duration >= params[r].duration_per_image
        /\ video[r].duration = Len(images[r]) * params[r].duration_per_image

\* C5: validate_media_files answers valid = false exactly when the image
\* list is empty, or an image path is not an existing regular file, or an
\* audio path is supplied that is not an existing regular file.
C5_ValidExactlyWhenInputsUsable ==
    \A r \in Requests :
        validation[r].called =>
            (~validation[r].valid <=>
                \/ images[r] = <<>>
                \/ \E i \in DOMAIN images[r] : ~IsRegularFile(images[r][i])
                \/ Truthy(audio[r]) /\ ~IsRegularFile(audio[r]))

C5_Witness ==
    \E r \in Requests :
        /\ validation[r].called
        /\ ~validation[r].valid
        /\ images[r] # <<>>
        /\ \A i \in DOMAIN images[r] : FileKind(images[r][i]) # "missing"
        /\ \E i \in DOMAIN images[r] : FileKind(images[r][i]) = "dir"
        /\ ~Truthy(audio[r])

\* C6: validate_media_files always returns a result {valid, errors}, in
\* which valid holds if and only if errors is empty; an empty image list
\* gives valid = false with at least one error.
C6_ValidIffNoErrors ==
    \A r \in Requests :
        pc[r] # "validate" =>
            /\ validation[r].called
            /\ validation[r].valid <=> Len(validation[r].errors) = 0
            /\ images[r] = <<>> =>
                    (~validation[r].valid /\ Len(validation[r].errors) >= 1)

C6_Witness ==
    \E r \in Requests :
        /\ validation[r].called
        /\ images[r] = <<>>
        /\ ~validation[r].valid
        /\ Len(validation[r].errors) >= 1

\* C7: when validation answers valid = false, nothing downstream runs: no
\* clip is created, no audio is opened, no output file is allocated or
\* written, and the request ends with an error, not a path.
C7_InvalidRequestStopsAtValidation ==
    \A r \in Requests :
        (validation[r].called /\ ~validation[r].valid) =>
            /\ image_clips[r] = <<>>
            /\ ~video[r].made
            /\ ~audio_clip[r].present
            /\ HandlesOf(r) = {}
            /\ output_path[r] = NoPath
            /\ tmpfiles = {} /\ written = {}
            /\ pc[r] = "error"
            /\ err[r].type = "RuntimeError"
            /\ result[r] = NoPath

C7_Witness ==
    \E r \in Requests :
        /\ validation[r].called /\ ~validation[r].valid
        /\ images[r] # <<>>
        /\ \A i \in DOMAIN images[r] : IsRegularFile(images[r][i])
        /\ pc[r] = "error"

\* C8: a failure in a render stage surfaces as one error that
\* carries the originating cause and the name of the stage that failed.
C8_ErrorNamesFailedStage ==
    \A r \in Requests :
        (pc[r] = "error" /\ failed[r].stage \in RenderStages) =>
            /\ err[r].cause = failed[r].exc
            /\ \E i \in DOMAIN err[r].msg : err[r].msg[i] = failed[r].stage

\* C9: a path is returned only if validation, the composition of every clip,
\* scheduling, audio mixing and encoding all completed without error; a
\* request that failed returns no path.
C9_PathOnlyAfterEveryStage ==
    \A r \in Requests :
        /\ result[r] # NoPath =>
            /\ pc[r] = "done"
            /\ done_stages[r] = Stages
            /\ Len(image_clips[r]) = Len(images[r])
            /\ failed[r].stage = "none"
            /\ err[r] = NoErr
            /\ result[r] \in written
        /\ pc[r] = "error" => result[r] = NoPath
        /\ pc[r] = "done" => result[r] # NoPath

C9_Witness ==
    \E r \in Requests :
        /\ pc[r] = "done"
        /\ result[r] \in written
        /\ done_stages[r] = Stages

\* C10: on every exit path of a render, success or failure, no clip or
\* audio handle opened by that render is left open.
C10_HandlesReleasedOnEveryExit ==
    \A r \in Requests :
        pc[r] \in {"done", "error"} => HandlesOf(r) = {}

MentionsValue(s) ==
    \/ s.fps # Absent \/ s.duration_per_image # Absent
    \/ s.transition_duration # Absent \/ s.animation_type # Absent

\* C11: for a JSON object each field is decided on its own: fps is the
\* script's value if that is a positive integer, else 24; duration_per_image
\* the script's value if a positive number, else 3.0; transition_duration the
\* script's value if a non-negative number, else 0.5; animation_type the
\* script's value if one of fade, zoom, pan, else "fade"; a missing field
\* takes its default.
C11_FieldsDecidedIndependently ==
    (script.kind = "object" /\ parsed.state # "pending") =>
        /\ parsed.state = "returned"
        /\ parsed.value.fps =
                IF script.fps.t = "int" /\ script.fps.v > 0
                THEN script.fps ELSE JInt(24)
        /\ parsed.value.duration_per_image =
                IF script.duration_per_image.t \in {"int", "float"}
                   /\ script.duration_per_image.v > 0
                THEN script.duration_per_image ELSE JFloat(3000)
        /\ parsed.value.transition_duration =
                IF script.transition_duration.t \in {"int", "float"}
                   /\ script.transition_duration.v >= 0
                THEN script.transition_duration ELSE JFloat(500)
        /\ parsed.value.animation_type =
                IF script.animation_type.t = "str"
                   /\ script.animation_type.v \in {"fade", "zoom", "pan"}
                THEN script.animation_type ELSE JStr("fade")

\* C12: input that cannot be parsed gives exactly the default parameter set
\* (fps 24, duration_per_image 3.0, transition_duration 0.5, "fade") and no
\* error.
C12_UnparsableGivesDefaults ==
    (script.kind \in {"invalid", "not_str", "undecodable", "too_deep",
                      "huge_number"}
     /\ parsed.state # "pending") =>
        /\ parsed.state = "returned"
        /\ parsed.value.fps = JInt(24)
        /\ parsed.value.duration_per_image = JFloat(3000)
        /\ parsed.value.transition_duration = JFloat(500)
        /\ parsed.value.animation_type = JStr("fade")

\* C13 (as stated): when free-form text mentions an fps, a duration, a
\* transition or an animation, the field of the result takes the mentioned
\* value, not the default.
C13_TextValuesExtracted ==
    (script.kind = "invalid" /\ parsed.state = "returned") =>
        /\ script.fps # Absent => parsed.value.fps = script.fps
        /\ script.duration_per_image # Absent =>
                parsed.value.duration_per_image = script.duration_per_image
        /\ script.transition_duration # Absent =>
                parsed.value.transition_duration = script.transition_duration
        /\ script.animation_type # Absent =>
                parsed.value.animation_type = script.animation_type

\* C13 (amended): nothing is extracted from free-form text: text that
\* json.loads rejects gives the full default parameter set whatever values
\* it mentions, and text nested too deep to be scanned raises
\* RecursionError; a mentioned value never reaches the result.
C13_TextValuesIgnored ==
    (script.kind \in {"invalid", "too_deep"} /\ MentionsValue(script)
     /\ parsed.state # "pending") =>
        IF script.kind = "invalid"
        THEN /\ parsed.state = "returned"
             /\ parsed.value = DefaultParams
        ELSE /\ parsed.state = "raised"
             /\ parsed.exc = "RecursionError"

C13_Witness ==
    /\ script.kind = "invalid"
    /\ script.fps = JInt(30)
    /\ script.duration_per_image = JFloat(1500)
    /\ script.animation_type = JStr("zoom")
    /\ parsed.state = "returned"
    /\ parsed.value.fps = DefaultFps
    /\ parsed.value.animation_type = DefaultAnimation

AfterEncode(r) == pc[r] \in {"write", "close", "done"}

\* C14: when 0 < audio_duration < video_duration the mixer concatenates
\* exactly floor(video_duration / audio_duration) + 1 copies of the audio,
\* which together last strictly longer than the video, so the trim to
\* [0, video_duration] lies inside the concatenation.
C14_LoopCountCoversVideo ==
    \A r \in Requests :
        (AfterMix(r) /\ Truthy(audio[r])
         /\ AudioDuration(audio[r]) < video[r].duration) =>
            LET a == AudioDuration(audio[r])
                v == video[r].duration
                track == video[r].audio
            IN  /\ a > 0
                /\ track.copies = (v \div a) + 1
                /\ BigCmp(track.whole_f, video[r].duration_f) > 0
                /\ track.start = 0 /\ track.stop = v

\* C15: when audio_duration > video_duration the track is the source audio
\* cut to its first video_duration seconds, [0, video_duration], not looped.
C15_LongAudioTrimmedFromStart ==
    \A r \in Requests :
        (AfterMix(r) /\ Truthy(audio[r])
         /\ AudioDuration(audio[r]) > video[r].duration) =>
            /\ video[r].audio.copies = 1
            /\ video[r].audio.start = 0
            /\ video[r].audio.stop = video[r].duration

C15_Witness ==
    \E r \in Requests :
        /\ pc[r] = "done"
        /\ audio[r] = "long.mp3"
        /\ video[r].duration = 4000
        /\ video[r].audio.stop = 4000

\* C17: with two or more clips the timeline is the clips in input order, one
\* after the other; every clip but the last gets one more fade-out of
\* transition_duration after the effects it already has, the last clip gets
\* none, and the whole sequence gets one fade-in of transition_duration.
C17_MultiClipTransitions ==
    \A r \in Requests :
        ("schedule" \in done_stages[r] /\ Len(image_clips[r]) >= 2) =>
            LET n == Len(image_clips[r])
                t == params[r].transition_duration
            IN  /\ Len(video[r].parts) = n
                /\ \A i \in 1..n :
                        image_clips[r][i].size =
                            MakeClip(ImageSize(images[r][i]), params[r]).size
                /\ \A i \in 1..(n - 1) :
                        /\ video[r].parts[i].fx =
                                image_clips[r][i].fx \o <<Fx("fadeout", t)>>
                        /\ video[r].parts[i].size = image_clips[r][i].size
                /\ video[r].parts[n] = image_clips[r][n]
                /\ video[r].fx = <<Fx("fadein", t)>>
                /\ video[r].duration = SumDuration(video[r].parts)

C17_Witness ==
    \E r \in Requests :
        /\ "schedule" \in done_stages[r]
        /\ images[r] = <<"land.jpg", "square.jpg", "land.jpg">>
        /\ params[r].animation_type = "fade"
        /\ params[r].transition_duration = 3000
        /\ video[r].parts[2].fx =
                <<Fx("fadein", 500), Fx("fadeout", 500), Fx("fadeout", 3000)>>
        /\ video[r].parts[3].fx = <<Fx("fadein", 500), Fx("fadeout", 500)>>

\* C18: with exactly one image the timeline is that clip with a 0.5 s
\* fade-in and a 0.5 s fade-out, whatever transition_duration is.
C18_SingleClipFixedFades ==
    \A r \in Requests :
        ("schedule" \in done_stages[r] /\ Len(image_clips[r]) = 1) =>
            /\ video[r].parts = <<image_clips[r][1]>>
            /\ video[r].fx = <<Fx("fadein", 500), Fx("fadeout", 500)>>
            /\ video[r].duration = params[r].duration_per_image

C18_Witness ==
    \E r \in Requests :
        /\ "schedule" \in done_stages[r]
        /\ Len(images[r]) = 1
        /\ params[r].transition_duration = 3000
        /\ video[r].fx = <<Fx("fadein", 500), Fx("fadeout", 500)>>

\* C19: before encoding the composed timeline is resized to exactly
\* (target_width, target_height), whatever size the clips left it at.
C19_EncodedFrameIsTarget ==
    \A r \in Requests :
        AfterEncode(r) =>
            video[r].size = <<params[r].target_width, params[r].target_height>>

\* C16: when no audio asset is supplied no audio file is opened, no audio
\* track is attached to the video, no audio resource is closed at the end,
\* and the render goes on to a silent output.
C16_NoAudioNoTrack ==
    \A r \in Requests :
        audio[r] \in {None, ""} =>
            /\ AudioHandle(r) \notin open
            /\ AudioHandle(r) \notin closed
            /\ ~video[r].audio.present
            /\ ~audio_clip[r].present
            /\ failed[r].stage # "mix"
            /\ pc[r] = "done" => (result[r] \in written /\ "mix" \in done_stages[r])

C16_Witness ==
    \E r \in Requests :
        /\ audio[r] = ""
        /\ pc[r] = "done"
        /\ result[r] \in written
        /\ ~video[r].audio.present
        /\ closed = {ClipHandle(r, i) : i \in 1..Len(images[r])}

\* C20: a successful render returns the path of a file that render itself
\* newly allocated; two renders, in sequence or interleaved, never hold the
\* same path, and a file is written only by the render that allocated it.
C20_OutputPathsAreUnique ==
    /\ \A r \in Requests :
            result[r] # NoPath =>
                (result[r] = output_path[r] /\ result[r] \in tmpfiles)
    /\ \A r1, r2 \in Requests :
            (r1 # r2 /\ output_path[r1] # NoPath /\ output_path[r2] # NoPath)
                => output_path[r1] # output_path[r2]
    /\ Cardinality(tmpfiles) =
            Cardinality({r \in Requests : output_path[r] # NoPath})
    /\ \A f \in written :
            Cardinality({r \in Requests : output_path[r] = f}) = 1

C20_Witness ==
    /\ Cardinality(Requests) = 2
    /\ \A r \in Requests : pc[r] = "done" /\ result[r] \in written
    /\ \A r1, r2 \in Requests : r1 # r2 => result[r1] # result[r2]

\* the handles request r may hold
OwnHandles(r) ==
    {ClipHandle(r, i) : i \in 1..Len(images[r])} \cup {AudioHandle(r)}

\* C21: the render keeps no state shared between requests: under every
\* interleaving of two requests, what a request has computed so far (its
\* validation, clips, timeline, audio span, success or error) is what its
\* own arguments give when it runs alone, whatever the other request did.
C21_RequestsDoNotInterfere ==
    \A r \in Requests :
        /\ pc[r] = "validate" =>
                (/\ ~validation[r].called /\ image_clips[r] = <<>>
                 /\ ~video[r].made /\ output_path[r] = NoPath
                 /\ err[r] = NoErr /\ HandlesOf(r) = {})
        /\ validation[r].called =>
                validation[r] = validate_media_files(images[r], audio[r])
        /\ Len(image_clips[r]) <= Len(images[r])
        /\ \A i \in DOMAIN image_clips[r] :
                image_clips[r][i] = MakeClip(ImageSize(images[r][i]), params[r])
        /\ video[r].made =>
                /\ Len(image_clips[r]) = Len(images[r])
                /\ video[r].duration =
                        Len(images[r]) * params[r].duration_per_image
                /\ video[r].parts =
                        ScheduleClips(image_clips[r],
                                      params[r].transition_duration).parts
        /\ video[r].audio.present =>
                video[r].audio =
                    MixAudio(AudioFileClip(audio[r]), video[r])
        /\ HandlesOf(r) \subseteq OwnHandles(r)
        /\ pc[r] = "error" => err[r] = RenderError(failed[r].exc)
        /\ pc[r] = "done" =>
                (result[r] = output_path[r] /\ result[r] \in written)

C21_Witness ==
    \E r1, r2 \in Requests :
        /\ r1 # r2
        /\ pc[r1] = "done" /\ pc[r2] = "error"
        /\ Len(images[r1]) = 2 /\ Len(images[r2]) = 1
        /\ video[r1].duration = 4000
        /\ audio[r1] = "short.mp3" /\ audio[r2] = None
        /\ failed[r2].stage = "write"

\* the names of the effects a clip carries
FxNames(clip) == {clip.fx[k][1] : k \in DOMAIN clip.fx}

\* C22: within one render every clip receives the animation named by the
\* render's animation_type: any two clips carry the same effects and the same
\* position rule, whatever their index and whatever image they were made from.
C22_OneAnimationPerRender ==
    \A r \in Requests :
        /\ \A i, j \in DOMAIN image_clips[r] :
                /\ image_clips[r][i].fx = image_clips[r][j].fx
                /\ image_clips[r][i].pos = image_clips[r][j].pos
        /\ \A i \in DOMAIN image_clips[r] :
                /\ params[r].animation_type = "fade" =>
                        (/\ FxNames(image_clips[r][i]) = {"fadein", "fadeout"}
                         /\ image_clips[r][i].pos = "default")
                /\ params[r].animation_type = "zoom" =>
                        (/\ FxNames(image_clips[r][i]) = {"resize_t"}
                         /\ image_clips[r][i].pos = "center")
                /\ params[r].animation_type = "pan" =>
                        (/\ FxNames(image_clips[r][i]) = {"resize"}
                         /\ image_clips[r][i].pos = "pan")

C22_Witness ==
    \E r \in Requests :
        /\ params[r].animation_type = "pan"
        /\ images[r] = <<"land.jpg", "square.jpg", "land.jpg">>
        /\ Len(image_clips[r]) = 3
        /\ image_clips[r][1].pos = "pan" /\ image_clips[r][3].pos = "pan"

\* the declared domains of the render parameters
InDomain(p) ==
    /\ p.fps \in Nat \ {0}
    /\ p.duration_per_image > 0
    /\ p.transition_duration >= 0
    /\ p.animation_type \in AnimationTypes
    /\ p.target_width > 0 /\ p.target_height > 0

\* C23: the parameters that reach clip composition and encoding are within
\* their declared domains on every entry path, a direct call of
\* create_video_from_images included.
C23_ParamsInDomainAtCompose ==
    \A r \in Requests :
        (image_clips[r] # <<>> \/ video[r].made) => InDomain(params[r])

\* a JSON number in milliseconds
Millis(x) == IF x.t = "float" THEN x.v ELSE 1000 * NumVal(x)

\* C25: nothing compares transition_duration with duration_per_image. The
\* resolver returns a positive duration and a non-negative transition as they
\* are, also when the transition is the longer one; the render validates only
\* the files, and with several clips it fades every clip but the last out over
\* transition_duration even when the clip is shorter than that.
C25_TransitionNeverComparedWithDuration ==
    /\ parsed.state # "pending" =>
            /\ parsed.state = "returned"
            /\ parsed.value.transition_duration = script.transition_duration
            /\ parsed.value.duration_per_image =
                    Get(script.duration_per_image, JFloat(3000))
    /\ \A r \in Requests :
            /\ validation[r].called => validation[r].valid
            /\ ("schedule" \in done_stages[r] /\ Len(images[r]) > 1) =>
                    /\ video[r].fx = <<Fx("fadein", params[r].transition_duration)>>
                    /\ \A i \in 1..(Len(video[r].parts) - 1) :
                            /\ video[r].parts[i].duration =
                                    params[r].duration_per_image
                            /\ video[r].parts[i].fx[Len(video[r].parts[i].fx)] =
                                    Fx("fadeout", params[r].transition_duration)

C25_Witness ==
    /\ parsed.state = "returned"
    /\ Millis(parsed.value.transition_duration) >
            Millis(parsed.value.duration_per_image)
    /\ \E r \in Requests :
            /\ pc[r] = "done"
            /\ Len(video[r].parts) = 2
            /\ params[r].transition_duration = 3000
            /\ video[r].parts[1].duration = 2000
            /\ Fx("fadeout", 3000) = video[r].parts[1].fx[Len(video[r].parts[1].fx)]

\* the stages in the order of the source text
StageOrder ==
    <<"validate", "compose", "schedule", "mix", "encode", "write", "close">>

\* C24: the stages of one render run in the fixed order validate, compose,
\* schedule, mix, encode, write (then close): a stage has completed only if every earlier
\* one has, the audio file is opened only once the timeline exists, the output
\* file is allocated only once mixing is over, and a failure in composition,
\* scheduling or mixing leaves no output file.
C24_StagesInFixedOrder ==
    \A r \in Requests :
        /\ \A k \in 2..Len(StageOrder) :
                StageOrder[k] \in done_stages[r] =>
                    StageOrder[k - 1] \in done_stages[r]
        /\ AudioHandle(r) \in open \cup closed =>
                (video[r].made /\ "schedule" \in done_stages[r])
        /\ output_path[r] # NoPath => "mix" \in done_stages[r]
        /\ failed[r].stage \in {"validate", "compose", "schedule", "mix"} =>
                (output_path[r] = NoPath /\ tmpfiles = {} /\ written = {})

C24_Witness ==
    \E r \in Requests :
        /\ pc[r] = "error" /\ failed[r].stage = "mix"
        /\ AudioHandle(r) \notin open
        /\ Len(image_clips[r]) = 2
        /\ video[r].made
        /\ output_path[r] = NoPath /\ tmpfiles = {}

\* C26: when write_videofile fails after the output file was allocated, the
\* render ends with an error, returns no path, and the allocated file stays
\* on the filesystem: nothing removes it.
C26_FailedEncodeLeavesFile ==
    \A r \in Requests :
        failed[r].stage = "write" =>
            /\ pc[r] = "error"
            /\ err[r] = RenderError(LibraryError)
            /\ result[r] = NoPath
            /\ output_path[r] # NoPath
            /\ output_path[r] \in tmpfiles
            /\ output_path[r] \notin written

C26_Witness ==
    \E r \in Requests :
        /\ failed[r].stage = "write" /\ pc[r] = "error"
        /\ "encode" \in done_stages[r]
        /\ output_path[r] = TmpPath(1) /\ TmpPath(1) \in tmpfiles
        /\ result[r] = NoPath

\* C27: with the API key configured and the services answering,
\* create_video_with_ai ends by returning a video path with one description
\* per input image, or fails because a service call or the render failed; it
\* never fails because it invokes an operation OpenAIClient does not provide.
C27_AIPipelineUsesProvidedOperations ==
    (ai.pc \in {"done", "error"} /\ api_key # "") =>
        \/ /\ ai.pc = "done"
           /\ ai.video_path # NoPath
           /\ Len(ai.image_descriptions) = Len(ai.images)
        \/ /\ ai.pc = "error"
           /\ \/ ai.exc[Len(ai.exc)] = "Exception"
              \/ ai.msg[2] = "video creation failed: "

\* C28: all successful get_client calls return one and the same instance,
\* and a call whose initialisation fails leaves the global unset.
C28_OneInstanceForAllCallers ==
    /\ Cardinality(returned) <= 1
    /\ \A t \in Threads : gc[t].pc = "raised" => client_instance = 0

\* C29: truncate_text returns the text unchanged when its length is at most
\* max_length, and otherwise a string of at most max_length characters that
\* ends with "...", for every non-negative max_length.
C29_TruncatedFitsMaxLength ==
    truncated.state = "returned" =>
        IF Len(text) <= max_length
        THEN truncated.value = text
        ELSE /\ Len(truncated.value) <= max_length
             /\ Len(truncated.value) >= 3
             /\ SubSeq(truncated.value, Len(truncated.value) - 2,
                       Len(truncated.value)) = <<".", ".", ".">>

\* the labels after which an itinerary names a hotel: the check-in word, the
\* lodging word with a colon, the words "recommended hotel" with a colon
HotelLabels ==
    {<<"ru", "zhu">>, <<"zhu", "su", "fw_colon">>,
     <<"tui", "jian", "jiu", "dian", "fw_colon">>}

\* the characters hotel names are written with in the itineraries
NameChars == {"x", "jiu", "dian"}

RECURSIVE NameEnd(_, _)
NameEnd(t, p) ==
    IF p > Len(t) THEN p - 1
    ELSE IF t[p] \notin NameChars THEN p - 1 ELSE NameEnd(t, p + 1)

\* the hotel names that directly follow a label in t
NamedHotels(t) ==
    {SubSeq(t, p + Len(l), NameEnd(t, p + Len(l))) :
        <<p, l>> \in {pl \in (1..Len(t)) \X HotelLabels :
                        /\ MatchesAt(t, pl[2], pl[1])
                        /\ NameEnd(t, pl[1] + Len(pl[2])) >= pl[1] + Len(pl[2])}}

\* name is a contiguous part of entry
Inside(name, entry) ==
    \E k \in 0..(Len(entry) - Len(name)) :
        SubSeq(entry, k + 1, k + Len(name)) = name

\* the shape of the returned list: at most 10 entries, pairwise distinct,
\* stripped and non-blank
HotelsWellFormed ==
    hotels.state = "returned" =>
        /\ itinerary = <<>> => hotels.value = <<>>
        /\ Len(hotels.value) <= 10
        /\ \A i, j \in DOMAIN hotels.value :
                i # j => hotels.value[i] # hotels.value[j]
        /\ \A i \in DOMAIN hotels.value :
                LET h == hotels.value[i]
                IN  /\ h # <<>>
                    /\ h[1] \notin WhiteSpace /\ h[Len(h)] \notin WhiteSpace

\* C30: extract_hotels_from_itinerary returns [] for empty text and otherwise
\* at most 10 distinct, stripped, non-blank entries; when the itinerary names
\* hotels after one of the labels, the list is non-empty and every named hotel
\* appears inside a returned entry.
C30_NamedHotelsAreExtracted ==
    /\ HotelsWellFormed
    /\ hotels.state = "returned" =>
            \A name \in NamedHotels(itinerary) :
                /\ hotels.value # <<>>
                /\ \E i \in DOMAIN hotels.value : Inside(name, hotels.value[i])

====
